---- MODULE Spec2Model ----
(***************************************************************************)
(* FinanceHub: the metrics / technical-indicator layer                     *)
(* (utils/metrics_calculator.py), the portfolio analytics                  *)
(* (utils/portfolio_manager.py, backend/app.py), the series repository     *)
(* with its read cache (utils/data_fetcher.py, utils/crypto_fetcher.py)    *)
(* and the dataset exporter (utils/data_exporter.py).                      *)
(*                                                                         *)
(* Numbers.  The code computes with IEEE doubles (pandas / numpy).  The    *)
(* model computes with exact rationals extended by NaN, +inf and -inf,     *)
(* with numpy's rules for division by zero (x/0 = +-inf, 0/0 = NaN, no     *)
(* exception).  Square roots and exponentially weighted means are not      *)
(* rational; they are computed in fixed point with Scale units per 1.      *)
(***************************************************************************)
EXTENDS Integers, Sequences, FiniteSets, TLC

VARIABLES data, holdings, all_data, result,
          provider, received, cache, clock, calls, session_state

vars == <<data, holdings, all_data, result, provider, received, cache, clock,
          calls, session_state>>

\* the state of the series repository and of what it handed out
repository == <<provider, received, cache, clock, calls, session_state>>

-----------------------------------------------------------------------------
(* Bounds of the model *)

\* longest price series handed to the three public operations
MaxLen == 4
\* longest price series handed to the technical indicators
MaxHistory == 14
\* longest price series handed to the portfolio analytics
MaxBars == 3
\* the longest pattern of bars a long history repeats
MaxPattern == 3
\* the most handlers a session runs after its first searches
MaxSearches == 2
\* the most operations that are run on the portfolio store
MaxStored == 3
\* fixed-point units per 1 for square roots and EWM means
Scale == 1000

-----------------------------------------------------------------------------
(* Extended rationals *)

Abs(x) == IF x < 0 THEN -x ELSE x

Sgn(x) == IF x < 0 THEN -1 ELSE IF x > 0 THEN 1 ELSE 0

RECURSIVE GCD(_, _)
GCD(a, b) == IF b = 0 THEN a ELSE GCD(b, a % b)

NaN == [k |-> "nan", n |-> 0, d |-> 1]
PosInf == [k |-> "inf", n |-> 1, d |-> 1]
NegInf == [k |-> "inf", n |-> -1, d |-> 1]

\* the rational n/d in lowest terms with a positive denominator (d # 0)
Fin(n, d) ==
    LET g == GCD(Abs(n), Abs(d))
        s == IF d < 0 THEN -1 ELSE 1
    IN  [k |-> "fin", n |-> s * (n \div g), d |-> s * (d \div g)]

Int2Num(i) == [k |-> "fin", n |-> i, d |-> 1]

Zero == Int2Num(0)

IsNaN(a) == a.k = "nan"
IsFin(a) == a.k = "fin"
IsInf(a) == a.k = "inf"

SignedInf(s) == IF s < 0 THEN NegInf ELSE PosInf

Neg(a) == IF IsNaN(a) THEN NaN ELSE [a EXCEPT !.n = -a.n]

Add(a, b) ==
    IF IsNaN(a) \/ IsNaN(b) THEN NaN
    ELSE IF IsInf(a) /\ IsInf(b) THEN (IF a.n = b.n THEN a ELSE NaN)
    ELSE IF IsInf(a) THEN a
    ELSE IF IsInf(b) THEN b
    ELSE Fin(a.n * b.d + b.n * a.d, a.d * b.d)

Sub(a, b) == Add(a, Neg(b))

Mul(a, b) ==
    IF IsNaN(a) \/ IsNaN(b) THEN NaN
    ELSE IF IsInf(a) \/ IsInf(b)
         THEN (IF a.n = 0 \/ b.n = 0 THEN NaN ELSE SignedInf(Sgn(a.n) * Sgn(b.n)))
    ELSE Fin(a.n * b.n, a.d * b.d)

\* numpy float division: a zero divisor gives +-inf or NaN, never an exception
Div(a, b) ==
    IF IsNaN(a) \/ IsNaN(b) THEN NaN
    ELSE IF IsInf(a) THEN (IF IsInf(b) THEN NaN
                           ELSE SignedInf(a.n * (IF b.n < 0 THEN -1 ELSE 1)))
    ELSE IF IsInf(b) THEN Zero
    ELSE IF b.n = 0 THEN (IF a.n = 0 THEN NaN ELSE SignedInf(a.n))
    ELSE Fin(a.n * b.d, a.d * b.n)

\* comparisons; every comparison with NaN is false
Lt(a, b) ==
    IF IsNaN(a) \/ IsNaN(b) THEN FALSE
    ELSE IF IsInf(a) THEN a.n < 0 /\ ~(IsInf(b) /\ b.n < 0)
    ELSE IF IsInf(b) THEN b.n > 0
    ELSE a.n * b.d < b.n * a.d

Gt(a, b) == Lt(b, a)

Le(a, b) == ~IsNaN(a) /\ ~IsNaN(b) /\ ~Lt(b, a)

AbsNum(a) == IF IsNaN(a) THEN NaN ELSE [a EXCEPT !.n = Abs(a.n)]

\* floor of a finite rational
Floor(a) == a.n \div a.d

\* int(x) of Python: truncation towards zero
Trunc(a) == Sgn(a.n) * (Abs(a.n) \div a.d)

\* a finite rational rounded down to a multiple of 1/Scale
Quant(a) == IF IsFin(a) THEN Fin((a.n * Scale) \div a.d, Scale) ELSE a

RECURSIVE ISqrtFrom(_, _)
ISqrtFrom(x, r) == IF (r + 1) * (r + 1) > x THEN r ELSE ISqrtFrom(x, r + 1)

RECURSIVE ISqrt(_)
\* the integer square root, floor(sqrt(x)), x >= 0
ISqrt(x) == IF x < 4 THEN ISqrtFrom(x, 0) ELSE ISqrtFrom(x, 2 * ISqrt(x \div 4))

\* np.sqrt(k) of a non-negative integer constant, in fixed point
SqrtInt(k) == Fin(ISqrt(k * Scale * Scale), Scale)

-----------------------------------------------------------------------------
(* Sequences of numbers: the pandas Series operations the code uses *)

RECURSIVE SumNum(_, _, _)
\* xs[lo] + ... + xs[hi]; NaN if any term is NaN
SumNum(xs, lo, hi) == IF lo > hi THEN Zero ELSE Add(SumNum(xs, lo, hi - 1), xs[hi])

Last(xs) == xs[Len(xs)]

ToNums(is) == [i \in 1..Len(is) |-> Int2Num(is[i])]

\* Series.diff(): the first element is NaN
SeriesDiff(xs) == [i \in 1..Len(xs) |-> IF i = 1 THEN NaN ELSE Sub(xs[i], xs[i - 1])]

\* Series.pct_change(): the first element is NaN
PctChange(xs) ==
    [i \in 1..Len(xs) |-> IF i = 1 THEN NaN ELSE Div(Sub(xs[i], xs[i - 1]), xs[i - 1])]

\* a rolling mean with min_periods = 1: the mean of the bars there are
RollingMeanAt_partial(xs, window, i) ==
    LET lo == IF i < window THEN 1 ELSE i - window + 1
    IN  Div(SumNum(xs, lo, i), Int2Num(i - lo + 1))

\* Series.rolling(window).mean() at position i (min_periods = window):
\* NaN unless the window lies in the series and holds no NaN
RollingMeanAt(xs, window, i) ==
    IF i < window THEN NaN
    ELSE Div(SumNum(xs, i - window + 1, i), Int2Num(window))

RECURSIVE SumSqDev(_, _, _)
\* the sum over xs[1..hi] of the squared deviations from m, in units of 1/Scale^2
SumSqDev(xs, m, hi) ==
    IF hi = 0 THEN 0
    ELSE LET dev == Floor(Mul(Sub(xs[hi], m), Int2Num(Scale)))
         IN  SumSqDev(xs, m, hi - 1) + dev * dev

\* standard deviation of finite numbers with ddof delta degrees of freedom:
\* NaN when fewer than ddof + 1 values (0/0 in the variance)
StdOf(xs, ddof) ==
    LET n == Len(xs) IN
    IF n = 0 \/ n - ddof <= 0 THEN NaN
    ELSE LET m == Div(SumNum(xs, 1, n), Int2Num(n))
         IN  Fin(ISqrt(SumSqDev(xs, m, n) \div (n - ddof)), Scale)

HasNaN(xs) == \E i \in 1..Len(xs) : ~IsFin(xs[i])

\* the elements of xs that are not NaN, in order
DropNaN(xs) == SelectSeq(xs, LAMBDA x : ~IsNaN(x))

\* pandas Series.std(): NaN skipped, ddof = 1
SeriesStd(xs) == LET ys == DropNaN(xs) IN IF HasNaN(ys) THEN NaN ELSE StdOf(ys, 1)

\* numpy np.std(list): NaN propagates, ddof = 0
NpStd(xs) == IF HasNaN(xs) THEN NaN ELSE StdOf(xs, 0)

\* Series.rolling(window).std() at position i (min_periods = window, ddof = 1)
RollingStdAt(xs, window, i) ==
    IF i < window THEN NaN
    ELSE LET w == SubSeq(xs, i - window + 1, i)
         IN  IF HasNaN(w) THEN NaN ELSE StdOf(w, 1)

RECURSIVE EwmFrom(_, _, _, _, _, _)
\* the loop of pandas' ewm(span, adjust=True).mean() over fixed-point values qs:
\* old_wt and weighted are in units of 1/Scale, oldWtFactor = 1 - alpha = num/den
EwmFrom(qs, i, old_wt, weighted, factor, out) ==
    IF i > Len(qs) THEN out
    ELSE LET ow == (old_wt * factor[1]) \div factor[2]
             w  == IF weighted # qs[i]
                   THEN (ow * weighted + Scale * qs[i]) \div (ow + Scale)
                   ELSE weighted
         IN  EwmFrom(qs, i + 1, ow + Scale, w, factor, Append(out, w))

\* Series.ewm(span=span).mean() of a series without NaN, in fixed point:
\* alpha = 2 / (span + 1), defined from the first element on (min_periods = 0)
EwmMean(qs, span) ==
    IF Len(qs) = 0 THEN << >>
    ELSE EwmFrom(qs, 2, Scale, qs[1], <<span - 1, span + 1>>, <<qs[1]>>)

-----------------------------------------------------------------------------
(* Inputs: what the repository hands to the computation layer *)

\* the two bars of the daily series (Open, High, Low, Close, Volume)
Bar1 == [Open |-> 100, High |-> 105, Low |-> 99, Close |-> 102, Volume |-> 1000]
Bar2 == [Open |-> 102, High |-> 103, Low |-> 100, Close |-> 101, Volume |-> 1200]

Bar3 == [Open |-> 101, High |-> 104, Low |-> 101, Close |-> 104, Volume |-> 0]

BarSet == {Bar1, Bar2}

AllBars == {Bar1, Bar2, Bar3}

\* all sequences over S of length 0..n
SeqsUpTo(S, n) == UNION {[1..m -> S] : m \in 0..n}

\* get_stock_data returns None (no rows, or the provider failed) or a DataFrame;
\* a DataFrame of zero rows is what a caller can still construct
NoneData == [isNone |-> TRUE, rows |-> << >>]

Frame(rows) == [isNone |-> FALSE, rows |-> rows]

DataSet == {NoneData} \cup {Frame(rows) : rows \in SeqsUpTo(AllBars, MaxLen)}

\* the non-empty histories the technical indicators are computed for
HistorySet == {Frame(rows) : rows \in SeqsUpTo(BarSet, MaxHistory) \ {<< >>}}

\* data.empty
Empty(df) == Len(df.rows) = 0

\* data[col] as a Series of numbers
Column(df, col) == [i \in 1..Len(df.rows) |-> Int2Num(df.rows[i][col])]

\* issuer metadata: a dictionary in which any field may be absent.
\* marketCap is in units of 1000 dollars.
EmptyInfo == [x \in {} |-> 0]

FullInfo == ("marketCap" :> 1500000) @@ ("trailingPE" :> Fin(57, 2))
            @@ ("beta" :> Fin(6, 5)) @@ ("dividendYield" :> Fin(1, 200))

ZeroInfo == ("marketCap" :> 0) @@ ("dividendYield" :> Zero)

InfoSet == {EmptyInfo, FullInfo, ZeroInfo}

\* dict.get(key, default)
Get(dict, key, default) == IF key \in DOMAIN dict THEN dict[key] ELSE default

-----------------------------------------------------------------------------
(* MetricsCalculator *)

NA == [text |-> "N/A"]

_format_market_cap(market_cap) ==
    IF market_cap = 0 THEN NA
    ELSE IF market_cap >= 1000000000
         THEN [text |-> "$", suffix |-> "T",
               hundredths |-> (market_cap + 5000000) \div 10000000]
    ELSE IF market_cap >= 1000000
         THEN [text |-> "$", suffix |-> "B",
               hundredths |-> (market_cap + 5000) \div 10000]
    ELSE IF market_cap >= 1000
         THEN [text |-> "$", suffix |-> "M",
               hundredths |-> (market_cap + 5) \div 10]
    ELSE [text |-> "$", suffix |-> "", dollars |-> market_cap * 1000]

\* f"{value * 100:.2f}%": the percentage in hundredths of a percent
_format_percentage(value) ==
    IF value.n = 0 THEN NA
    ELSE [text |-> "%", hundredths |-> Floor(Add(Mul(value, Int2Num(10000)), Fin(1, 2)))]

MaxNum(xs) == CHOOSE x \in {xs[i] : i \in DOMAIN xs} :
                  \A y \in {xs[i] : i \in DOMAIN xs} : ~Lt(x, y)

MinNum(xs) == CHOOSE x \in {xs[i] : i \in DOMAIN xs} :
                  \A y \in {xs[i] : i \in DOMAIN xs} : ~Lt(y, x)

MeanNum(xs) == Div(SumNum(xs, 1, Len(xs)), Int2Num(Len(xs)))

\* Series.median()
MedianNum(xs) ==
    LET n == Len(xs)
        below(x) == Cardinality({i \in 1..n : Lt(xs[i], x)})
        upto(x)  == Cardinality({i \in 1..n : ~Lt(x, xs[i])})
        kth(k)   == CHOOSE x \in {xs[i] : i \in 1..n} : below(x) < k /\ k <= upto(x)
    IN  IF n % 2 = 1 THEN kth((n + 1) \div 2)
        ELSE Div(Add(kth(n \div 2), kth(n \div 2 + 1)), Int2Num(2))

RsiPeriod == 14
BollingerPeriod == 20
BollingerStdDev == 2
MacdFast == 12
MacdSlow == 26
MacdSignal == 9

\* delta.where(delta > 0, 0): NaN > 0 is false, so the leading NaN becomes 0
GainLeg(delta) == [i \in 1..Len(delta) |-> IF Gt(delta[i], Zero) THEN delta[i] ELSE Zero]

\* the loss leg without the negation
LossLeg_signed(delta) ==
    [i \in 1..Len(delta) |-> IF Lt(delta[i], Zero) THEN delta[i] ELSE Zero]

\* -delta.where(delta < 0, 0)
LossLeg(delta) == [i \in 1..Len(delta) |-> IF Lt(delta[i], Zero) THEN Neg(delta[i]) ELSE Zero]

\* the rolling means of the two legs at the last bar
RsiGain(prices) == RollingMeanAt(GainLeg(SeriesDiff(prices)), RsiPeriod, Len(prices))

RsiLoss(prices) == RollingMeanAt(LossLeg(SeriesDiff(prices)), RsiPeriod, Len(prices))

\* the relative strength with the two legs exchanged
RelativeStrength_swapped(gain, loss) == Div(loss, gain)

\* rs = gain / loss
RelativeStrength(gain, loss) == Div(gain, loss)

_calculate_rsi(prices) ==
    IF Len(prices) = 0 THEN Int2Num(50)             \* iloc[-1] raises: except branch
    ELSE LET rs  == RelativeStrength(RsiGain(prices), RsiLoss(prices))
             rsi == Sub(Int2Num(100), Div(Int2Num(100), Add(Int2Num(1), rs)))
         IN  IF ~IsNaN(rsi) THEN rsi ELSE Int2Num(50)

_calculate_bollinger_bands(prices) ==
    IF Len(prices) = 0 THEN <<Zero, Zero>>          \* iloc[-1] raises: except branch
    ELSE LET sma == RollingMeanAt(prices, BollingerPeriod, Len(prices))
             std == RollingStdAt(prices, BollingerPeriod, Len(prices))
             band == Mul(std, Int2Num(BollingerStdDev))
         IN  <<Add(sma, band), Sub(sma, band)>>

\* the MACD line with the two averages exchanged
MacdLine_swapped(ema_fast, ema_slow) ==
    [i \in 1..Len(ema_fast) |-> ema_slow[i] - ema_fast[i]]

\* macd_line = ema_fast - ema_slow
MacdLine(ema_fast, ema_slow) ==
    [i \in 1..Len(ema_fast) |-> ema_fast[i] - ema_slow[i]]

_calculate_macd(prices) ==
    IF Len(prices) = 0 THEN <<Zero, Zero>>          \* iloc[-1] raises: except branch
    ELSE LET qs == [i \in 1..Len(prices) |-> Floor(Mul(prices[i], Int2Num(Scale)))]
             ema_fast == EwmMean(qs, MacdFast)
             ema_slow == EwmMean(qs, MacdSlow)
             macd_line == MacdLine(ema_fast, ema_slow)
             macd_signal == EwmMean(macd_line, MacdSignal)
         IN  <<Fin(Last(macd_line), Scale), Fin(Last(macd_signal), Scale)>>

Returned(op, value) == [op |-> op, outcome |-> "returned", value |-> value]

\* an exception that leaves the operation (AttributeError on data.empty)
Raised(op) == [op |-> op, outcome |-> "raised", value |-> << >>]

EmptyMapping == [x \in {} |-> 0]

\* the close before the last one, taken from the first bar instead
PreviousPrice_first(close) == close[1]

\* previous_price = data['Close'].iloc[-2] if len(data) > 1 else current_price
PreviousPrice(close) == IF Len(close) > 1 THEN close[Len(close) - 1] ELSE Last(close)

\* the change read off Series.diff(), which has no value for a single bar
PriceChange_diff(close) == Last(SeriesDiff(close))

\* price_change = current_price - previous_price
PriceChange(close) == Sub(Last(close), PreviousPrice(close))

\* the try block of calculate_metrics, for a series of at least one bar
Metrics(df, info) ==
    LET close == Column(df, "Close")
        volume == Column(df, "Volume")
        current_price == Last(close)
        previous_price == PreviousPrice(close)
        price_change == PriceChange(close)
        percent_change == IF previous_price # Zero
                          THEN Mul(Div(price_change, previous_price), Int2Num(100))
                          ELSE Zero
    IN     ("Current Price" :> current_price)
        @@ ("Price Change" :> price_change)
        @@ ("Percent Change" :> percent_change)
        @@ ("Volume" :> Trunc(Last(volume)))
        @@ ("Avg Volume" :> Trunc(MeanNum(volume)))
        @@ ("Market Cap" :> _format_market_cap(Get(info, "marketCap", 0)))
        @@ ("P/E Ratio" :> Get(info, "trailingPE", NA))
        @@ ("52W High" :> MaxNum(Column(df, "High")))
        @@ ("52W Low" :> MinNum(Column(df, "Low")))
        @@ ("Beta" :> Get(info, "beta", NA))
        @@ ("Dividend Yield" :> _format_percentage(Get(info, "dividendYield", Zero)))

\* rolling(window=20) of sma_20 and rolling(window=50) of sma_50
SmaShortWindow == 20

SmaLongWindow == 50

\* the moving average without the NaN guard
Sma_unguarded(close, window) == RollingMeanAt(close, window, Len(close))

\* data['Close'].rolling(window).mean().iloc[-1], reported as 0 when it is NaN
Sma(close, window) ==
    LET sma == RollingMeanAt(close, window, Len(close))
    IN  IF ~IsNaN(sma) THEN sma ELSE Zero

\* calculate_metrics answering an empty series with a mapping of N/A placeholders
calculate_metrics_placeholders(df, info) ==
    IF df.isNone THEN Raised("calculate_metrics")
    ELSE IF Empty(df)
         THEN Returned("calculate_metrics", ("Current Price" :> NA) @@ ("Market Cap" :> NA))
    ELSE Returned("calculate_metrics", Metrics(df, info))

calculate_metrics(df, info) ==
    IF df.isNone THEN Raised("calculate_metrics")
    ELSE IF Empty(df) THEN Returned("calculate_metrics", EmptyMapping)
    ELSE Returned("calculate_metrics", Metrics(df, info))

calculate_technical_indicators(df) ==
    IF df.isNone THEN Raised("calculate_technical_indicators")
    ELSE IF Empty(df) THEN Returned("calculate_technical_indicators", EmptyMapping)
    ELSE LET close == Column(df, "Close")
             bb == _calculate_bollinger_bands(close)
             macd == _calculate_macd(close)
         IN  Returned("calculate_technical_indicators",
                 [sma_20 |-> Sma(close, SmaShortWindow),
                  sma_50 |-> Sma(close, SmaLongWindow),
                  rsi |-> _calculate_rsi(close),
                  bb_upper |-> bb[1],
                  bb_lower |-> bb[2],
                  macd_line |-> macd[1],
                  macd_signal |-> macd[2]])

calculate_price_statistics(df) ==
    IF df.isNone THEN Raised("calculate_price_statistics")
    ELSE IF Empty(df) THEN Returned("calculate_price_statistics", EmptyMapping)
    ELSE LET close == Column(df, "Close")
         IN  Returned("calculate_price_statistics",
                 [current_price |-> Last(close),
                  high_52w |-> MaxNum(Column(df, "High")),
                  low_52w |-> MinNum(Column(df, "Low")),
                  avg_volume |-> MeanNum(Column(df, "Volume")),
                  price_volatility |->
                      Mul(Mul(SeriesStd(PctChange(close)), SqrtInt(252)), Int2Num(100)),
                  avg_price |-> MeanNum(close),
                  median_price |-> MedianNum(close)])

-----------------------------------------------------------------------------
(* The indicator engine as a state machine: a series is handed over, and    *)
(* each call of an operation ends by returning a value or by raising.       *)

NoResult == [op |-> "none", outcome |-> "none", value |-> << >>]

Init ==
    /\ data \in DataSet
    /\ holdings = EmptyMapping
    /\ all_data = EmptyMapping
    /\ result = NoResult
    /\ provider = << >> /\ received = << >> /\ cache = << >>
    /\ clock = 0 /\ calls = << >>
    /\ session_state = << >>

CalculateMetrics ==
    /\ result = NoResult
    /\ \E info \in InfoSet : result' = calculate_metrics(data, info)
    /\ UNCHANGED <<data, holdings, all_data, repository>>

CalculateTechnicalIndicators ==
    /\ result = NoResult
    /\ result' = calculate_technical_indicators(data)
    /\ UNCHANGED <<data, holdings, all_data, repository>>

CalculatePriceStatistics ==
    /\ result = NoResult
    /\ result' = calculate_price_statistics(data)
    /\ UNCHANGED <<data, holdings, all_data, repository>>

Next ==
    \/ CalculateMetrics
    \/ CalculateTechnicalIndicators
    \/ CalculatePriceStatistics

Spec == Init /\ [][Next]_vars

-----------------------------------------------------------------------------
(* PortfolioManager: performance analytics *)

Symbols == {"AAPL", "MSFT"}

\* the bars of the portfolio series (only Close is read)
PBar1 == [Open |-> 150, High |-> 150, Low |-> 150, Close |-> 150, Volume |-> 100]
PBar2 == [Open |-> 165, High |-> 165, Low |-> 165, Close |-> 165, Volume |-> 100]

PortfolioBars == {PBar1, PBar2}

ShareSet == {10, 20}

PurchasePriceSet == {150}

HoldingSet == [shares : ShareSet, purchase_price : PurchasePriceSet]

\* holdings: a dictionary symbol -> holding over any subset of the symbols
HoldingsSet == UNION {[S -> HoldingSet] : S \in SUBSET Symbols}

\* all_data: a dictionary symbol -> DataFrame; Python dictionaries keep their
\* insertion order, so it is a sequence of entries with distinct symbols
PortfolioFrames == {Frame(rows) : rows \in SeqsUpTo(PortfolioBars, MaxBars)}

AllDataSet ==
    {<< >>}
    \cup {<<[symbol |-> s, df |-> f]>> : s \in Symbols, f \in PortfolioFrames}
    \cup {<<[symbol |-> s, df |-> f], [symbol |-> t, df |-> g]>> :
             <<s, t>> \in {p \in Symbols \X Symbols : p[1] # p[2]},
             <<f, g>> \in PortfolioFrames \X PortfolioFrames}

\* symbol in all_data
In(symbol, dict) == \E i \in 1..Len(dict) : dict[i].symbol = symbol

\* all_data[symbol]
At(dict, symbol) == dict[CHOOSE i \in 1..Len(dict) : dict[i].symbol = symbol].df

\* the sum of f(x) over the finite set S
RECURSIVE SumOver(_, _)
SumOver(S, f) ==
    IF S = {} THEN Zero
    ELSE LET x == CHOOSE y \in S : TRUE IN Add(f[x], SumOver(S \ {x}, f))

\* the investment with the purchase price left out
Investment_shares(h) == h.shares

\* investment = shares * purchase_price
Investment(h) == h.shares * h.purchase_price

\* sum(h['shares'] * h['purchase_price'] for h in holdings.values())
TotalInvestmentAll(hs) ==
    SumOver(DOMAIN hs, [s \in DOMAIN hs |-> Int2Num(Investment(hs[s]))])

\* the holdings whose symbol has a series
Held(hs, dict) == {s \in DOMAIN hs : In(s, dict)}

MinOf(S) == CHOOSE x \in S : \A y \in S : x <= y

DaysVolatility == 30

\* the daily portfolio return i days back (i = 0 is the last bar)
DailyReturn(hs, dict, total, i) ==
    LET counted == {s \in Held(hs, dict) : Len(At(dict, s).rows) > i + 1}
        term(s) ==
            LET close == Column(At(dict, s), "Close")
                n == Len(close)
                weight == Div(Int2Num(Investment(hs[s])), total)
                price_today == close[n - i]
                price_yesterday == close[n - i - 1]
            IN  Mul(weight, Div(Sub(price_today, price_yesterday), price_yesterday))
    IN  SumOver(counted, [s \in counted |-> term(s)])

\* the number of daily returns: min(days, len(first series) - 1), none if negative
ReturnCount(dict) ==
    LET n == Len(dict[1].df.rows) - 1
    IN  IF n < 0 THEN 0 ELSE IF n < DaysVolatility THEN n ELSE DaysVolatility

\* portfolio_returns of _calculate_portfolio_volatility
PortfolioReturns(hs, dict) ==
    LET total == TotalInvestmentAll(hs)
    IN  [j \in 1..ReturnCount(dict) |-> DailyReturn(hs, dict, total, j - 1)]

_calculate_portfolio_volatility(hs, dict) ==
    IF DOMAIN hs = {} \/ Len(dict) = 0 THEN Zero
    ELSE IF /\ TotalInvestmentAll(hs) = Zero
            /\ ReturnCount(dict) > 0
            /\ \E s \in Held(hs, dict) : Len(At(dict, s).rows) > 1
         THEN Zero                                  \* ZeroDivisionError: except branch
    ELSE LET portfolio_returns == PortfolioReturns(hs, dict)
         IN  IF Len(portfolio_returns) > 0
             THEN Mul(NpStd(portfolio_returns), SqrtInt(252))
             ELSE Zero

\* portfolio_values of _calculate_max_drawdown: per bar the sum of shares * close
\* over the held symbols, over the shortest series of all_data
PortfolioValues(hs, dict) ==
    LET min_length == MinOf({Len(dict[i].df.rows) : i \in 1..Len(dict)})
        held == Held(hs, dict)
    IN  [i \in 1..min_length |->
            SumOver(held, [s \in held |->
                Mul(Int2Num(hs[s].shares), Column(At(dict, s), "Close")[i])])]

\* np.maximum.accumulate
RECURSIVE RunningMax(_, _)
RunningMax(xs, i) ==
    IF i = 1 THEN xs[1]
    ELSE LET p == RunningMax(xs, i - 1)
         IN  IF IsNaN(p) \/ IsNaN(xs[i]) THEN NaN ELSE IF Lt(p, xs[i]) THEN xs[i] ELSE p

\* np.min: NaN if any element is NaN
NpMin(xs) == IF \E i \in 1..Len(xs) : IsNaN(xs[i]) THEN NaN ELSE MinNum(xs)

_calculate_max_drawdown(hs, dict) ==
    IF DOMAIN hs = {} \/ Len(dict) = 0 THEN Zero
    ELSE LET portfolio_values == PortfolioValues(hs, dict)
             drawdowns == [i \in 1..Len(portfolio_values) |->
                              LET peak == RunningMax(portfolio_values, i)
                              IN  Div(Sub(portfolio_values[i], peak), peak)]
         IN  IF Len(drawdowns) > 0 THEN AbsNum(NpMin(drawdowns)) ELSE Zero

RiskFreeRate == Fin(2, 100)

\* the Sharpe ratio without the guard on the volatility
SharpeRatio_unguarded(weighted_returns, portfolio_volatility) ==
    Div(Sub(weighted_returns, RiskFreeRate), portfolio_volatility)

\* (weighted_returns - risk_free_rate) / portfolio_volatility if portfolio_volatility > 0 else 0
SharpeRatio(weighted_returns, portfolio_volatility) ==
    IF Gt(portfolio_volatility, Zero)
    THEN Div(Sub(weighted_returns, RiskFreeRate), portfolio_volatility)
    ELSE Zero

\* weight = investment / sum(h['shares'] * h['purchase_price'] for h in
\* holdings.values()): the divisor runs over ALL holdings, held or not
Weight(hs, s) == Div(Int2Num(Investment(hs[s])), TotalInvestmentAll(hs))

calculate_portfolio_performance(hs, dict) ==
    LET held == Held(hs, dict)
        op == "calculate_portfolio_performance"
    IN
    IF \E s \in held : Empty(At(dict, s))
    THEN Returned(op, EmptyMapping)                 \* iloc[-1] raises: except branch
    ELSE IF held # {} /\ TotalInvestmentAll(hs) = Zero
    THEN Returned(op, EmptyMapping)                 \* ZeroDivisionError: except branch
    ELSE
    LET current_price(s) == Last(Column(At(dict, s), "Close"))
        total_investment ==
            SumOver(held, [s \in held |-> Int2Num(Investment(hs[s]))])
        current_value ==
            SumOver(held, [s \in held |-> Mul(Int2Num(hs[s].shares), current_price(s))])
        stock_return(s) ==
            Div(Sub(current_price(s), Int2Num(hs[s].purchase_price)),
                Int2Num(hs[s].purchase_price))
        weighted_returns ==
            SumOver(held, [s \in held |-> Mul(stock_return(s), Weight(hs, s))])
        total_return == Sub(current_value, total_investment)
        total_return_pct ==
            IF Gt(total_investment, Zero)
            THEN Mul(Div(total_return, total_investment), Int2Num(100))
            ELSE Zero
        portfolio_volatility == _calculate_portfolio_volatility(hs, dict)
        sharpe_ratio == SharpeRatio(weighted_returns, portfolio_volatility)
        max_drawdown == _calculate_max_drawdown(hs, dict)
    IN  Returned(op,
            [total_investment |-> total_investment,
             current_value |-> current_value,
             total_return |-> total_return,
             total_return_pct |-> total_return_pct,
             weighted_return_pct |-> Mul(weighted_returns, Int2Num(100)),
             portfolio_volatility |-> Mul(portfolio_volatility, Int2Num(100)),
             sharpe_ratio |-> sharpe_ratio,
             max_drawdown |-> Mul(max_drawdown, Int2Num(100)),
             number_of_stocks |-> Cardinality(DOMAIN hs)])

\* the route /api/portfolio/calculate of the backend: the provider is asked
\* for each holding's series; a missing or empty series is None and is skipped
calculate_portfolio(hs, dict) ==
    LET priced == {s \in DOMAIN hs : In(s, dict) /\ ~Empty(At(dict, s))}
        current_price(s) == Last(Column(At(dict, s), "Close"))
        total_investment ==
            SumOver(priced, [s \in priced |-> Int2Num(Investment(hs[s]))])
        current_value ==
            SumOver(priced, [s \in priced |-> Mul(Int2Num(hs[s].shares), current_price(s))])
        total_return == Sub(current_value, total_investment)
        return_pct ==
            IF Gt(total_investment, Zero)
            THEN Mul(Div(total_return, total_investment), Int2Num(100))
            ELSE Zero
    IN  Returned("calculate_portfolio",
            [total_investment |-> total_investment,
             current_value |-> current_value,
             total_return |-> total_return,
             return_pct |-> return_pct])

InitPortfolio ==
    /\ data = NoneData
    /\ holdings \in HoldingsSet
    /\ all_data \in AllDataSet
    /\ result = NoResult
    /\ provider = << >> /\ received = << >> /\ cache = << >>
    /\ clock = 0 /\ calls = << >>
    /\ session_state = << >>

CalculatePortfolioPerformance ==
    /\ result = NoResult
    /\ result' = calculate_portfolio_performance(holdings, all_data)
    /\ UNCHANGED <<data, holdings, all_data, repository>>

CalculatePortfolio ==
    /\ result = NoResult
    /\ result' = calculate_portfolio(holdings, all_data)
    /\ UNCHANGED <<data, holdings, all_data, repository>>

NextPortfolio ==
    \/ CalculatePortfolioPerformance
    \/ CalculatePortfolio

SpecPortfolio == InitPortfolio /\ [][NextPortfolio]_vars

\* the technical indicators over long histories
InitIndicators ==
    /\ data \in HistorySet
    /\ holdings = EmptyMapping
    /\ all_data = EmptyMapping
    /\ result = NoResult
    /\ provider = << >> /\ received = << >> /\ cache = << >>
    /\ clock = 0 /\ calls = << >>
    /\ session_state = << >>

NextIndicators == CalculateTechnicalIndicators

SpecIndicators == InitIndicators /\ [][NextIndicators]_vars

\* the moving averages over histories around the length of their windows: a
\* pattern of bars repeated up to one bar less than a window, exactly a window
\* and one bar more
Cycle(pattern, n) == [i \in 1..n |-> pattern[((i - 1) % Len(pattern)) + 1]]

WindowLengths == {window + d : window \in {SmaShortWindow, SmaLongWindow}, d \in {-1, 0, 1}}

LongHistorySet ==
    {Frame(Cycle(pattern, n)) : pattern \in SeqsUpTo(AllBars, MaxPattern) \ {<< >>},
                                n \in WindowLengths}

InitMovingAverages ==
    /\ data \in LongHistorySet
    /\ holdings = EmptyMapping
    /\ all_data = EmptyMapping
    /\ result = NoResult
    /\ provider = << >> /\ received = << >> /\ cache = << >>
    /\ clock = 0 /\ calls = << >>
    /\ session_state = << >>

NextMovingAverages == CalculateTechnicalIndicators

SpecMovingAverages == InitMovingAverages /\ [][NextMovingAverages]_vars

-----------------------------------------------------------------------------
(* The series repository (StockDataFetcher, CryptoDataFetcher) in front of  *)
(* the market-data provider                                                 *)

\* longest daily series the provider delivers
MaxProviderBars == 2

\* period: str = "1y"
DefaultPeriod == "1y"

CryptoSymbols == {"BTC-USD"}

ProviderSymbols == Symbols \cup CryptoSymbols

\* the columns of ticker.history() after reset_index(), as yfinance orders them
BaseColumns ==
    <<"Date", "Open", "High", "Low", "Close", "Volume", "Dividends", "Stock Splits">>

\* the same columns as a provider may order them otherwise; reset_index()
\* puts the index column first
ReorderedColumns ==
    <<"Date", "Close", "High", "Low", "Open", "Volume", "Stock Splits", "Dividends">>

ColumnOrders == {BaseColumns, ReorderedColumns}

\* a cell holding a string
Text(s) == [k |-> "text", s |-> s]

\* a cell holding the timestamp of a trading day
Timestamp(day) == [k |-> "date", day |-> day]

\* one row of the provider's history: a bar on a day, without corporate actions
HistoryRow(bar, day) ==
    [c \in {"Date", "Open", "High", "Low", "Close", "Volume", "Dividends", "Stock Splits"} |->
        CASE c = "Date" -> Timestamp(day)
          [] c \in {"Dividends", "Stock Splits"} -> Zero
          [] OTHER -> Int2Num(bar[c])]

\* ticker.history(period, interval="1d"): the bars of the last Len(bars) days
History(columns, bars) ==
    [raises |-> FALSE, columns |-> columns,
     rows |-> [i \in 1..Len(bars) |-> HistoryRow(bars[i], MaxProviderBars - Len(bars) + i)]]

\* the provider raises (network failure, malformed answer)
ProviderFailure == [raises |-> TRUE, columns |-> << >>, rows |-> << >>]

ProviderAnswers ==
    {ProviderFailure}
    \cup {History(c, bars) : c \in ColumnOrders, bars \in SeqsUpTo(BarSet, MaxProviderBars)}

\* what the provider answers for (symbol, period); no rows for an unknown symbol
Answer(prov, symbol, period) ==
    IF <<symbol, period>> \in DOMAIN prov
    THEN prov[<<symbol, period>>]
    ELSE History(BaseColumns, << >>)

\* None
NoSeries == [isNone |-> TRUE, columns |-> << >>, rows |-> << >>]

DataFrame(columns, rows) == [isNone |-> FALSE, columns |-> columns, rows |-> rows]

\* the body of StockDataFetcher.get_stock_data: None if the provider has no
\* rows or raises
get_stock_data(prov, symbol, period) ==
    LET answer == Answer(prov, symbol, period)
    IN  IF answer.raises \/ Len(answer.rows) = 0
        THEN NoSeries
        ELSE DataFrame(answer.columns, answer.rows)

\* symbol.endswith(suffix)
EndsWith(symbol, suffix) ==
    /\ Len(symbol) >= Len(suffix)
    /\ SubSeq(symbol, Len(symbol) - Len(suffix) + 1, Len(symbol)) = suffix

\* the normalisation that appends the suffix to a symbol that ends with it
NormalizeCrypto_always(symbol) == symbol \o "-USD"

\* if not symbol.endswith('-USD'): symbol = f"{symbol}-USD"
NormalizeCrypto(symbol) ==
    IF ~EndsWith(symbol, "-USD") THEN symbol \o "-USD" ELSE symbol

\* the body of CryptoDataFetcher.get_crypto_data
get_crypto_data(prov, symbol, period) ==
    get_stock_data(prov, NormalizeCrypto(symbol), period)

-----------------------------------------------------------------------------
(* pandas DataFrames as the DataExporter uses them: an ordered list of      *)
(* column names and rows mapping a column name to a cell                    *)

\* col in df.columns
Has(df, col) == \E i \in 1..Len(df.columns) : df.columns[i] = col

\* df[col]
Series(df, col) == [i \in 1..Len(df.rows) |-> df.rows[i][col]]

\* df[col] = values: a new column goes last, an existing one is overwritten
SetColumn(df, col, values) ==
    [df EXCEPT !.columns = IF Has(df, col) THEN @ ELSE Append(@, col),
               !.rows = [i \in 1..Len(@) |-> (col :> values[i]) @@ @[i]]]

RECURSIVE SetColumns(_, _)
\* the assignments cols = <<name, values>>, ..., one after the other
SetColumns(df, cols) ==
    IF Len(cols) = 0 THEN df
    ELSE SetColumns(SetColumn(df, cols[1][1], cols[1][2]), Tail(cols))

\* a concatenation that takes the order of the columns from the second frame
Concat_columnsOfSecond(a, b) ==
    LET columns == b.columns \o SelectSeq(a.columns, LAMBDA c : ~Has(b, c))
        names == {columns[i] : i \in 1..Len(columns)}
        fill(row) == [c \in names |-> IF c \in DOMAIN row THEN row[c] ELSE NaN]
        rows == a.rows \o b.rows
    IN  DataFrame(columns, [i \in 1..Len(rows) |-> fill(rows[i])])

\* pd.concat([a, b], ignore_index=True): the columns of a, then the columns
\* only b has; a cell a row has no column for is NaN
Concat(a, b) ==
    LET columns == a.columns \o SelectSeq(b.columns, LAMBDA c : ~Has(a, c))
        names == {columns[i] : i \in 1..Len(columns)}
        fill(row) == [c \in names |-> IF c \in DOMAIN row THEN row[c] ELSE NaN]
        rows == a.rows \o b.rows
    IN  DataFrame(columns, [i \in 1..Len(rows) |-> fill(rows[i])])

RECURSIVE ConcatAll(_)
\* pd.concat(frames, ignore_index=True) of a non-empty list
ConcatAll(frames) ==
    IF Len(frames) = 1 THEN frames[1]
    ELSE Concat(ConcatAll(SubSeq(frames, 1, Len(frames) - 1)), frames[Len(frames)])

\* the symbols in the order of Python's string comparison
SortedSymbols == <<"AAPL", "MSFT">>

Rank(symbol) == CHOOSE i \in 1..Len(SortedSymbols) : SortedSymbols[i] = symbol

\* row a does not come after row b in the order (Date, Symbol)
NotAfter(a, b) ==
    \/ a["Date"].day < b["Date"].day
    \/ a["Date"].day = b["Date"].day /\ Rank(a["Symbol"].s) <= Rank(b["Symbol"].s)

RECURSIVE InsertRow(_, _)
InsertRow(row, sorted) ==
    IF Len(sorted) = 0 THEN <<row>>
    ELSE IF NotAfter(row, Head(sorted)) THEN <<row>> \o sorted
    ELSE <<Head(sorted)>> \o InsertRow(row, Tail(sorted))

RECURSIVE SortRows(_)
\* a stable sort of the rows by (Date, Symbol)
SortRows(rows) ==
    IF Len(rows) = 0 THEN << >>
    ELSE InsertRow(Head(rows), SortRows(Tail(rows)))

\* the frames concatenated and left in their order
SortValues_unsorted(df) == df

\* df.sort_values(['Date', 'Symbol'])
SortValues(df) == [df EXCEPT !.rows = SortRows(@)]

RECURSIVE FracDigits(_, _, _)
\* the first k decimal digits of r / d (0 <= r < d) and the remainder left
FracDigits(r, d, k) ==
    IF k = 0 THEN <<0, r>>
    ELSE LET p == FracDigits(r, d, k - 1)
         IN  <<p[1] * 10 + (p[2] * 10) \div d, (p[2] * 10) % d>>

RECURSIVE Pow10(_)
Pow10(k) == IF k = 0 THEN 1 ELSE 10 * Pow10(k - 1)

\* '%.<digits>f' % x: rounded to the nearest, a tie to the even digit
FloatFormat(x, digits) ==
    IF IsNaN(x) THEN Text("")
    ELSE IF IsInf(x) THEN Text(IF x.n < 0 THEN "-inf" ELSE "inf")
    ELSE LET a == Abs(x.n)
             p == FracDigits(a % x.d, x.d, digits)
             up == 2 * p[2] > x.d \/ (2 * p[2] = x.d /\ p[1] % 2 = 1)
             frac == p[1] + (IF up THEN 1 ELSE 0)
             carry == frac = Pow10(digits)
         IN  [k |-> "float", negative |-> x.n < 0,
              whole |-> (a \div x.d) + (IF carry THEN 1 ELSE 0),
              frac |-> IF carry THEN 0 ELSE frac, digits |-> digits]

\* the dtype of a column: object when it holds a string, int64 for whole
\* volumes, float64 for other numbers
Dtype(df, col) ==
    LET cells == {df.rows[i][col] : i \in 1..Len(df.rows)}
    IN  IF \E c \in cells : c.k = "text" THEN "object"
        ELSE IF \A c \in cells : c.k = "date" THEN "datetime64"
        ELSE IF col = "Volume" /\ \A c \in cells : c.k = "fin" /\ c.d = 1 THEN "int64"
        ELSE "float64"

\* one cell of to_csv: a missing value is the empty field; float_format
\* applies to float64 columns only, a number in an object column is written
\* with str()
CsvCell(cell, dtype, digits) ==
    IF cell.k \in {"text", "date"} THEN cell
    ELSE IF IsNaN(cell) THEN Text("")
    ELSE IF dtype = "object" THEN [k |-> "str", x |-> cell]
    ELSE IF dtype = "int64" THEN [k |-> "int", n |-> cell.n]
    ELSE FloatFormat(cell, digits)

\* a text of the header line alone
EmptyString_headerOnly == [header |-> <<"Date">>, lines |-> << >>]

\* the empty string
EmptyString == [header |-> << >>, lines |-> << >>]

\* df.to_csv(index=False, float_format='%.<digits>f'): the header line, then
\* one line per row with the cells in the order of the columns
to_csv(df, digits) ==
    [header |-> df.columns,
     lines |-> [i \in 1..Len(df.rows) |->
                  [j \in 1..Len(df.columns) |->
                      CsvCell(df.rows[i][df.columns[j]], Dtype(df, df.columns[j]), digits)]]]

-----------------------------------------------------------------------------
(* DataExporter *)

CompanyInfo ==
    FullInfo @@ ("longName" :> "Apple Inc.") @@ ("sector" :> "Technology")
             @@ ("industry" :> "Consumer Electronics")

ExportInfoSet == {EmptyInfo, CompanyInfo}

\* the keys of the metadata dictionary in their order
MetadataColumns ==
    <<"Date", "Open", "High", "Low", "Close", "Volume", "Dividends", "Stock Splits",
      "Daily_Change", "Daily_Change_Pct", "Price_Range", "Price_Range_Pct",
      "MA_7", "MA_20", "MA_50", "Volatility_7d", "Volatility_20d",
      "Volume_MA_20", "Volume_Ratio">>

\* the metadata banner row
Metadata(info, symbol, period, now) ==
    [c \in {MetadataColumns[i] : i \in 1..Len(MetadataColumns)} |->
        CASE c = "Date" -> Text("METADATA")
          [] c = "Open" -> Text("Company: " \o Get(info, "longName", "N/A"))
          [] c = "High" -> Text("Sector: " \o Get(info, "sector", "N/A"))
          [] c = "Low" -> Text("Industry: " \o Get(info, "industry", "N/A"))
          [] c = "Close" ->
               Text("Market Cap: " \o (IF "marketCap" \in DOMAIN info
                                       THEN ToString(info["marketCap"]) ELSE "N/A"))
          [] c = "Volume" -> Text("Export Date: " \o ToString(now))
          [] c = "Dividends" -> Text("Symbol: " \o symbol)
          [] c = "Stock Splits" -> Text("Period: " \o period)
          [] c = "Daily_Change" -> Text("START_OF_DATA")
          [] OTHER -> Text("")]

\* the derived columns of the equity export, in the order they are assigned
DerivedColumns(df) ==
    LET n == Len(df.rows)
        open == Series(df, "Open")
        high == Series(df, "High")
        low == Series(df, "Low")
        close == Series(df, "Close")
        volume == Series(df, "Volume")
        pct == PctChange(close)
        volume_ma == [i \in 1..n |-> RollingMeanAt(volume, 20, i)]
    IN  << <<"Daily_Change", [i \in 1..n |-> Sub(close[i], open[i])]>>,
           <<"Daily_Change_Pct",
             [i \in 1..n |-> Mul(Div(Sub(close[i], open[i]), open[i]), Int2Num(100))]>>,
           <<"Price_Range", [i \in 1..n |-> Sub(high[i], low[i])]>>,
           <<"Price_Range_Pct",
             [i \in 1..n |-> Mul(Div(Sub(high[i], low[i]), low[i]), Int2Num(100))]>>,
           <<"MA_7", [i \in 1..n |-> RollingMeanAt(close, 7, i)]>>,
           <<"MA_20", [i \in 1..n |-> RollingMeanAt(close, 20, i)]>>,
           <<"MA_50", [i \in 1..n |-> RollingMeanAt(close, 50, i)]>>,
           <<"Volatility_7d", [i \in 1..n |-> RollingStdAt(pct, 7, i)]>>,
           <<"Volatility_20d", [i \in 1..n |-> RollingStdAt(pct, 20, i)]>>,
           <<"Volume_MA_20", volume_ma>>,
           <<"Volume_Ratio", [i \in 1..n |-> Div(volume[i], volume_ma[i])]>> >>

\* the outcome of an export: the string returned, the series objects the
\* repository handed out (as handed out and as they are afterwards) and the
\* requests sent to the provider
Exported(csv, objects, requests) ==
    [csv |-> csv, objects |-> objects, requests |-> requests]

\* a series object nobody wrote to
Untouched(df) == [handed |-> df, now |-> df]

\* the banner put after the bars
BannerAndBars_bannerLast(metadata_df, export_data) == Concat(export_data, metadata_df)

\* pd.concat([metadata_df, export_data], ignore_index=True)
BannerAndBars(metadata_df, export_data) == Concat(metadata_df, export_data)

export_stock_historical_data(prov, info, symbol, period, now) ==
    LET frame == get_stock_data(prov, symbol, period)
        requests == <<[symbol |-> symbol, period |-> period]>>
    IN  IF frame.isNone \/ Empty(frame)
        THEN Exported(EmptyString, <<Untouched(frame)>>, requests)
        ELSE LET export_data == SetColumns(frame, DerivedColumns(frame))
                 metadata_df ==
                     DataFrame(MetadataColumns, <<Metadata(info, symbol, period, now)>>)
                 final_data == BannerAndBars(metadata_df, export_data)
             IN  Exported(to_csv(final_data, 6), <<Untouched(frame)>>, requests)

\* data['Symbol'] = symbol; data['Daily_Return'] = data['Close'].pct_change() * 100
\* on the object the repository handed out
Tagged(frame, symbol) ==
    LET n == Len(frame.rows)
        pct == PctChange(Series(frame, "Close"))
    IN  SetColumns(frame,
            << <<"Symbol", [i \in 1..n |-> Text(symbol)]>>,
               <<"Daily_Return", [i \in 1..n |-> Mul(pct[i], Int2Num(100))]>> >>)

export_multiple_stocks_comparison(prov, symbols, period) ==
    LET fetched == [i \in 1..Len(symbols) |-> get_stock_data(prov, symbols[i], period)]
        objects ==
            [i \in 1..Len(symbols) |->
                IF fetched[i].isNone \/ Empty(fetched[i])
                THEN Untouched(fetched[i])
                ELSE [handed |-> fetched[i], now |-> Tagged(fetched[i], symbols[i])]]
        with_data == SelectSeq(objects, LAMBDA o : ~(o.handed.isNone \/ Empty(o.handed)))
        frames == [i \in 1..Len(with_data) |-> with_data[i].now]
        requests == [i \in 1..Len(symbols) |-> [symbol |-> symbols[i], period |-> period]]
    IN  IF Len(frames) = 0
        THEN Exported(EmptyString, objects, requests)
        ELSE Exported(to_csv(SortValues(ConcatAll(frames)), 6), objects, requests)

RECURSIVE CumProd(_, _)
\* Series.cumprod() at position i: NaN where the element is NaN, which the
\* running product skips
CumProd(xs, i) ==
    IF i = 0 THEN Int2Num(1)
    ELSE IF IsNaN(xs[i]) THEN CumProd(xs, i - 1)
    ELSE Mul(CumProd(xs, i - 1), xs[i])

\* the three columns export_crypto_data writes to the object it was handed
WithCryptoColumns(frame) ==
    LET n == Len(frame.rows)
        pct == PctChange(Series(frame, "Close"))
        growth == [i \in 1..n |-> Add(Int2Num(1), pct[i])]
    IN  SetColumns(frame,
            << <<"Daily_Return", [i \in 1..n |-> Mul(pct[i], Int2Num(100))]>>,
               <<"Cumulative_Return",
                 [i \in 1..n |->
                     IF IsNaN(growth[i]) THEN NaN
                     ELSE Sub(CumProd(growth, i), Int2Num(1))]>>,
               <<"Rolling_Volatility",
                 [i \in 1..n |->
                     Mul(Mul(RollingStdAt(pct, 30, i), SqrtInt(365)),
                         Int2Num(100))]>> >>)

export_crypto_data(prov, symbol, period) ==
    LET frame == get_crypto_data(prov, symbol, period)
        requests == <<[symbol |-> NormalizeCrypto(symbol), period |-> period]>>
    IN  IF frame.isNone \/ Empty(frame)
        THEN Exported(EmptyString, <<Untouched(frame)>>, requests)
        ELSE LET written == WithCryptoColumns(frame)
             IN  Exported(to_csv(written, 8), <<[handed |-> frame, now |-> written]>>, requests)

\* the answers for a crypto symbol, in yfinance's own column order
CryptoAnswers == {a \in ProviderAnswers : a.raises \/ a.columns = BaseColumns}

\* the provider as the exporter finds it: an answer for every symbol
ProviderSet ==
    {f \in [ProviderSymbols \X {DefaultPeriod} -> ProviderAnswers] :
        \A s \in CryptoSymbols : f[<<s, DefaultPeriod>>] \in CryptoAnswers}

\* the longest list of symbols a comparison is asked for
MaxRequested == 2

\* the lists of symbols a comparison is asked for: empty, with one symbol
\* twice, in either order
ComparisonRequests == SeqsUpTo(Symbols, MaxRequested)

\* the crypto symbols as a caller writes them, bare or suffixed
CryptoRequests == {"BTC", "BTC-USD"}

InitExport ==
    /\ data = NoneData
    /\ holdings = EmptyMapping
    /\ all_data = EmptyMapping
    /\ result = NoResult
    /\ provider \in ProviderSet
    /\ received = << >>
    /\ cache = << >>
    /\ clock = 0
    /\ session_state = << >>
    /\ calls = << >>

\* the effect of an export on the state
Export(op, exported) ==
    /\ result' = Returned(op, exported.csv)
    /\ received' = exported.objects
    /\ calls' = exported.requests
    /\ UNCHANGED <<data, holdings, all_data, provider, cache, clock, session_state>>

ExportStockHistoricalData ==
    /\ result = NoResult
    /\ \E symbol \in Symbols, info \in ExportInfoSet :
           Export("export_stock_historical_data",
                  export_stock_historical_data(provider, info, symbol, DefaultPeriod, clock))

ExportMultipleStocksComparison ==
    /\ result = NoResult
    /\ \E symbols \in ComparisonRequests :
           Export("export_multiple_stocks_comparison",
                  export_multiple_stocks_comparison(provider, symbols, DefaultPeriod))

ExportCryptoData ==
    /\ result = NoResult
    /\ \E symbol \in CryptoRequests :
           Export("export_crypto_data", export_crypto_data(provider, symbol, DefaultPeriod))

NextExport ==
    \/ ExportStockHistoricalData
    \/ ExportMultipleStocksComparison
    \/ ExportCryptoData

SpecExport == InitExport /\ [][NextExport]_vars

-----------------------------------------------------------------------------
(* The read cache in front of the provider: st.cache_data(ttl=...) on the   *)
(* fetchers.  An entry is kept per function and per argument tuple (the     *)
(* argument _self is left out of the key), it holds the value the function  *)
(* returned, None and {} included, and it is served while it is younger     *)
(* than ttl seconds; a call that finds no such entry runs the function and  *)
(* stores what it returns.                                                  *)

\* @st.cache_data(ttl=300) on get_stock_data and get_crypto_data
PriceTtl == 300

\* @st.cache_data(ttl=3600) on get_stock_info and get_crypto_info
InfoTtl == 3600

\* ticker.info: the provider's answer, raising or delivering a dictionary
InfoAnswer(prov, symbol) ==
    IF <<symbol, "info">> \in DOMAIN prov
    THEN prov[<<symbol, "info">>]
    ELSE [raises |-> FALSE, info |-> EmptyInfo]

\* the body of StockDataFetcher.get_stock_info: {} if the provider raises
get_stock_info(prov, symbol) ==
    LET answer == InfoAnswer(prov, symbol)
    IN  IF answer.raises THEN EmptyInfo ELSE answer.info

\* the body of CryptoDataFetcher.get_crypto_info
get_crypto_info(prov, symbol) == get_stock_info(prov, NormalizeCrypto(symbol))

\* the market as the provider knows it: a different series for every symbol
\* and period it lists, issuer metadata for every symbol, and a failure for
\* every request about a symbol in failing
Market(failing) ==
    LET listed ==
            (<<"AAPL", "1y">> :> History(BaseColumns, <<Bar1, Bar2>>))
            @@ (<<"AAPL", "1mo">> :> History(BaseColumns, <<Bar2>>))
            @@ (<<"MSFT", "1y">> :> History(ReorderedColumns, <<Bar1>>))
            @@ (<<"MSFT", "1mo">> :> History(BaseColumns, << >>))
            @@ (<<"BTC-USD", "1y">> :> History(BaseColumns, <<Bar2, Bar1>>))
            @@ (<<"BTC-USD", "1mo">> :> History(BaseColumns, <<Bar1>>))
            @@ (<<"AAPL", "info">> :> [raises |-> FALSE, info |-> CompanyInfo])
            @@ (<<"MSFT", "info">> :> [raises |-> FALSE, info |-> FullInfo])
            @@ (<<"BTC-USD", "info">> :> [raises |-> FALSE, info |-> ZeroInfo])
    IN  [key \in DOMAIN listed |->
            IF key[1] \in failing
            THEN (IF key[2] = "info" THEN [raises |-> TRUE, info |-> EmptyInfo]
                                     ELSE ProviderFailure)
            ELSE listed[key]]

MarketSet == {Market(failing) : failing \in SUBSET {"MSFT", "BTC-USD"}}

\* the key of a cache entry: the function and its arguments without _self
CacheKey(fn, symbol, period) == <<fn, symbol, period>>

\* an entry that is served also at the age of ttl seconds
Fresh_inclusive(entries, key, ttl, now) ==
    key \in DOMAIN entries /\ now - entries[key].stored_at <= ttl

\* the cache holds an entry for key that is younger than ttl
Fresh(entries, key, ttl, now) ==
    key \in DOMAIN entries /\ now - entries[key].stored_at < ttl

\* a write that keeps a series but not the answer None
Store_unlessNone(entries, key, ttl, value, now) ==
    LET kept == {k \in DOMAIN entries : k[1] # key[1] \/ now - entries[k].stored_at < ttl}
        none == "isNone" \in DOMAIN value /\ value.isNone
    IN  [k \in kept \cup (IF none THEN {} ELSE {key}) |->
            IF k = key THEN [value |-> value, stored_at |-> now] ELSE entries[k]]

\* a write to the cache of the function fn: it expires the entries of fn that
\* have reached ttl and stores the new entry
Store(entries, key, ttl, value, now) ==
    LET kept == {k \in DOMAIN entries : k[1] # key[1] \/ now - entries[k].stored_at < ttl}
    IN  [k \in kept \cup {key} |->
            IF k = key THEN [value |-> value, stored_at |-> now] ELSE entries[k]]

\* a call of a cached function: what is served, and when it was fetched
Served(fn, symbol, period, stored_at) ==
    [op |-> fn, symbol |-> symbol, period |-> period, stored_at |-> stored_at]

\* a call of the function fn decorated with st.cache_data(ttl): a fresh entry
\* is returned without running the body; otherwise the body runs, sending
\* request to the provider, and its value is stored and returned
Memoized(fn, symbol, period, ttl, value, request) ==
    LET key == CacheKey(fn, symbol, period) IN
    /\ IF Fresh(cache, key, ttl, clock)
       THEN /\ result' = Returned(fn, cache[key].value)
            /\ received' = <<Served(fn, symbol, period, cache[key].stored_at)>>
            /\ calls' = << >>
            /\ cache' = cache
       ELSE /\ result' = Returned(fn, value)
            /\ received' = <<Served(fn, symbol, period, clock)>>
            /\ calls' = <<request>>
            /\ cache' = Store(cache, key, ttl, value, clock)
    /\ UNCHANGED <<data, holdings, all_data, provider, clock, session_state>>

GetStockData(requests) ==
    \E r \in requests :
        Memoized("get_stock_data", r[1], r[2], PriceTtl,
                 get_stock_data(provider, r[1], r[2]),
                 [symbol |-> r[1], period |-> r[2]])

GetStockInfo(symbols) ==
    \E symbol \in symbols :
        Memoized("get_stock_info", symbol, "", InfoTtl,
                 get_stock_info(provider, symbol),
                 [symbol |-> symbol, period |-> "info"])

GetCryptoData(requests) ==
    \E r \in requests :
        Memoized("get_crypto_data", r[1], r[2], PriceTtl,
                 get_crypto_data(provider, r[1], r[2]),
                 [symbol |-> NormalizeCrypto(r[1]), period |-> r[2]])

GetCryptoInfo(symbols) ==
    \E symbol \in symbols :
        Memoized("get_crypto_info", symbol, "", InfoTtl,
                 get_crypto_info(provider, symbol),
                 [symbol |-> NormalizeCrypto(symbol), period |-> "info"])

\* DataService.get_crypto_data of the backend: the same normalisation, no cache
DataServiceGetCryptoData(requests) ==
    \E r \in requests :
        /\ result' = Returned("DataService.get_crypto_data",
                              get_crypto_data(provider, r[1], r[2]))
        /\ received' = <<Served("DataService.get_crypto_data", r[1], r[2], clock)>>
        /\ calls' = <<[symbol |-> NormalizeCrypto(r[1]), period |-> r[2]]>>
        /\ UNCHANGED <<data, holdings, all_data, provider, cache, clock, session_state>>

\* the instants at which requests arrive: around the two times to live
Instants == {0, PriceTtl - 1, PriceTtl, InfoTtl - 1, InfoTtl}

\* time passes between two requests
Tick ==
    /\ \E t \in Instants : t > clock /\ clock' = t
    /\ UNCHANGED <<data, holdings, all_data, result, provider, received, cache, calls, session_state>>

InitRepository ==
    /\ data = NoneData
    /\ holdings = EmptyMapping
    /\ all_data = EmptyMapping
    /\ result = NoResult
    /\ provider \in MarketSet
    /\ received = << >>
    /\ cache = << >>
    /\ clock = 0
    /\ session_state = << >>
    /\ calls = << >>

\* the requests of the cache's clients
StockRequests == {<<"AAPL", "1y">>, <<"AAPL", "1mo">>, <<"MSFT", "1mo">>}

StockInfoRequests == {"AAPL"}

CachedCryptoRequests == {<<"BTC", "1y">>}

NextCache ==
    \/ GetStockData(StockRequests)
    \/ GetStockInfo(StockInfoRequests)
    \/ GetCryptoData(CachedCryptoRequests)
    \/ Tick

SpecCache == InitRepository /\ [][NextCache]_vars

\* crypto symbols as callers write them: bare, suffixed, suffixed in lower
\* case, the suffix alone and the empty string
CryptoSymbolInputs == {"BTC", "BTC-USD", "btc-usd", "-USD", ""}

NextCrypto ==
    \/ GetCryptoData(CryptoSymbolInputs \X {DefaultPeriod})
    \/ GetCryptoInfo(CryptoSymbolInputs)
    \/ DataServiceGetCryptoData(CryptoSymbolInputs \X {DefaultPeriod})

SpecCrypto == InitRepository /\ [][NextCrypto]_vars

-----------------------------------------------------------------------------
(* The per-session store st.session_state: a mapping from keys to values    *)
(* that starts without the keys of the search history, of the preferences   *)
(* and of the portfolios.  CacheManager keeps the history of searched       *)
(* symbols and the user's preferences in it, the front end keeps its own    *)
(* history under the same key.                                              *)

\* st.session_state[key] = value
Put(state, key, value) ==
    [k \in DOMAIN state \cup {key} |-> IF k = key THEN value ELSE state[k]]

\* del st.session_state[key] for every key in keys
Del(state, keys) == [k \in DOMAIN state \ keys |-> state[k]]

LowerCase == "abcdefghijklmnopqrstuvwxyz"

UpperCase == "ABCDEFGHIJKLMNOPQRSTUVWXYZ"

\* str.upper() on one character
UpperChar(c) ==
    IF \E i \in 1..Len(LowerCase) : SubSeq(LowerCase, i, i) = c
    THEN LET i == CHOOSE j \in 1..Len(LowerCase) : SubSeq(LowerCase, j, j) = c
         IN  SubSeq(UpperCase, i, i)
    ELSE c

\* str.upper()
RECURSIVE Upper(_)
Upper(s) ==
    IF s = "" THEN ""
    ELSE UpperChar(SubSeq(s, 1, 1)) \o Upper(SubSeq(s, 2, Len(s)))

\* CacheManager.max_history
max_history == 10

\* the limit written into add_to_history of the front end
FrontendHistoryLimit == 10

\* symbol in history
Listed(symbol, history) == \E i \in 1..Len(history) : history[i] = symbol

\* history.remove(symbol): the first occurrence is taken out
Remove(history, symbol) ==
    LET i == CHOOSE j \in 1..Len(history) :
                 history[j] = symbol /\ \A k \in 1..(j - 1) : history[k] # symbol
    IN  SubSeq(history, 1, i - 1) \o SubSeq(history, i + 1, Len(history))

\* the symbol put in front of a history that keeps its earlier occurrence
MoveToFront_keep(history, symbol) == <<symbol>> \o history

\* if symbol in history: history.remove(symbol); history.insert(0, symbol)
MoveToFront(history, symbol) ==
    <<symbol>> \o (IF Listed(symbol, history) THEN Remove(history, symbol) ELSE history)

\* a history that is never cut
Capped_never(history, limit) == history

\* if len(history) > limit: history = history[:limit]
Capped(history, limit) ==
    IF Len(history) > limit THEN SubSeq(history, 1, limit) ELSE history

\* CacheManager.add_to_search_history
add_to_search_history(state, symbol) ==
    LET initialised ==
            IF "search_history" \notin DOMAIN state
            THEN Put(state, "search_history", << >>) ELSE state
        history == MoveToFront(initialised["search_history"], Upper(symbol))
    IN  Put(initialised, "search_history", Capped(history, max_history))

\* CacheManager.get_search_history
get_search_history(state) == Get(state, "search_history", << >>)

\* CacheManager.clear_search_history
clear_search_history(state) == Put(state, "search_history", << >>)

\* the front end's script up to add_to_history: the history is created if the
\* session has none, then the symbol is recorded
add_to_history(state, symbol) ==
    LET initialised ==
            IF "search_history" \notin DOMAIN state
            THEN Put(state, "search_history", << >>) ELSE state
        history == MoveToFront(initialised["search_history"], symbol)
    IN  Put(initialised, "search_history", Capped(history, FrontendHistoryLimit))

\* the settings page's Reset All Settings: every key that starts with
\* user_preferences or search_history is deleted
reset_all_settings(state) == Del(state, {"user_preferences", "search_history"})

\* the symbols a session has searched for, oldest first: one more than the
\* history keeps
SeedSymbols ==
    <<"AAPL", "MSFT", "GOOG", "AMZN", "META", "NVDA", "NFLX", "INTC", "ORCL", "IBM", "AMD">>

\* what is typed into the search box: nothing, the oldest seed symbol in either
\* case, a seed symbol in the middle, the newest one and a symbol not yet seen
SearchInputs == {"", "aapl", "AAPL", "NVDA", "amd", "Tsla"}

\* one handler of the session has run: it is written to the log of the
\* session and counted
Handled(op, argument, state) ==
    /\ clock < MaxSearches
    /\ clock' = clock + 1
    /\ session_state' = state
    /\ calls' = Append(calls, [op |-> op, symbol |-> argument])
    /\ result' = Returned(op, << >>)
    /\ UNCHANGED <<data, holdings, all_data, provider, received, cache>>

\* the sidebar's Search button of the application: an empty input is ignored
SidebarSearch ==
    \E symbol_input \in SearchInputs :
        /\ symbol_input # ""
        /\ Handled("add_to_search_history", symbol_input,
                   add_to_search_history(session_state, symbol_input))

\* the Search button of the front end, which upper-cases what it records
FrontendSearch ==
    \E symbol \in SearchInputs :
        /\ symbol # ""
        /\ Handled("add_to_history", Upper(symbol),
                   add_to_history(session_state, Upper(symbol)))

\* the settings page's Clear Search History button
ClearSearchHistory ==
    Handled("clear_search_history", "", clear_search_history(session_state))

\* the settings page's Reset All Settings button
ResetAllSettings ==
    Handled("reset_all_settings", "", reset_all_settings(session_state))

\* the searches of a session that has recorded the first n seed symbols
SeedLog(n) == [i \in 1..n |-> [op |-> "add_to_search_history", symbol |-> SeedSymbols[i]]]

\* the session after the searches of log
RECURSIVE Replay(_)
Replay(log) ==
    IF log = << >> THEN << >>
    ELSE add_to_search_history(Replay(SubSeq(log, 1, Len(log) - 1)), log[Len(log)].symbol)

\* a session that has searched for none, some or all of the seed symbols
InitHistory ==
    /\ data = NoneData
    /\ holdings = EmptyMapping
    /\ all_data = EmptyMapping
    /\ result = NoResult
    /\ provider = << >> /\ received = << >> /\ cache = << >>
    /\ clock = 0
    /\ \E n \in 0..Len(SeedSymbols) :
          /\ calls = SeedLog(n)
          /\ session_state = Replay(SeedLog(n))

NextHistory ==
    \/ SidebarSearch
    \/ FrontendSearch
    \/ ClearSearchHistory
    \/ ResetAllSettings

SpecHistory == InitHistory /\ [][NextHistory]_vars

(* CacheManager: the user's preferences *)

\* the mapping get_user_preferences falls back to
DefaultPreferences ==
    [theme |-> "light", default_period |-> "1y", auto_refresh |-> FALSE,
     show_technical_indicators |-> TRUE]

\* dict.update: the entries of other are written over those of dict
Update(dict, other) ==
    [k \in DOMAIN dict \cup DOMAIN other |-> IF k \in DOMAIN other THEN other[k] ELSE dict[k]]

\* preferences that are replaced by what is saved
save_user_preferences_replace(state, preferences) ==
    Put(state, "user_preferences", preferences)

\* CacheManager.save_user_preferences
save_user_preferences(state, preferences) ==
    LET initialised ==
            IF "user_preferences" \notin DOMAIN state
            THEN Put(state, "user_preferences", EmptyMapping) ELSE state
    IN  Put(initialised, "user_preferences",
            Update(initialised["user_preferences"], preferences))

\* CacheManager.get_user_preferences
get_user_preferences(state) == Get(state, "user_preferences", DefaultPreferences)

\* new_preferences of the settings page: the values of its three widgets
SettingsForms ==
    [show_technical_indicators : BOOLEAN, auto_refresh : BOOLEAN,
     default_period : {"1mo", "1y"}]

\* what callers save: the settings form, a theme alone and nothing at all
PreferenceSet == SettingsForms \cup {[theme |-> "dark"], EmptyMapping}

\* the settings page's Save Settings button
SaveSettings ==
    \E new_preferences \in SettingsForms :
        Handled("save_user_preferences", new_preferences,
                save_user_preferences(session_state, new_preferences))

\* a call of save_user_preferences with any mapping
SaveUserPreferences ==
    \E preferences \in PreferenceSet \ SettingsForms :
        Handled("save_user_preferences", preferences,
                save_user_preferences(session_state, preferences))

\* the settings page reading the preferences
GetUserPreferences ==
    /\ clock < MaxSearches
    /\ clock' = clock + 1
    /\ result' = Returned("get_user_preferences", get_user_preferences(session_state))
    /\ calls' = Append(calls, [op |-> "get_user_preferences", symbol |-> ""])
    /\ UNCHANGED <<data, holdings, all_data, provider, received, cache, session_state>>

\* a session that has saved nothing
InitSession ==
    /\ data = NoneData
    /\ holdings = EmptyMapping
    /\ all_data = EmptyMapping
    /\ result = NoResult
    /\ provider = << >> /\ received = << >> /\ cache = << >>
    /\ clock = 0 /\ calls = << >>
    /\ session_state = << >>

NextPreferences ==
    \/ SaveSettings
    \/ SaveUserPreferences
    \/ GetUserPreferences
    \/ ResetAllSettings

SpecPreferences == InitSession /\ [][NextPreferences]_vars

(* PortfolioManager: the portfolio store *)

\* PortfolioManager.portfolio_key
portfolio_key == "user_portfolios"

\* the value load_portfolio answers for a name that is not stored
NoPortfolio == [isNone |-> TRUE]

\* the outcome of an operation of the store: the session it leaves and the
\* value it returns
Outcome(state, value) == [state |-> state, value |-> value]

\* a save that starts the store anew
save_portfolio_anew(state, name, portfolio, now) ==
    Outcome(Put(state, portfolio_key,
                Put(<< >>, name,
                    [holdings |-> portfolio, created_date |-> now, last_updated |-> now])),
            TRUE)

\* PortfolioManager.save_portfolio at the time now
save_portfolio(state, name, portfolio, now) ==
    LET initialised ==
            IF portfolio_key \notin DOMAIN state
            THEN Put(state, portfolio_key, << >>) ELSE state
        portfolio_data ==
            [holdings |-> portfolio, created_date |-> now, last_updated |-> now]
    IN  Outcome(Put(initialised, portfolio_key,
                    Put(initialised[portfolio_key], name, portfolio_data)),
                TRUE)

\* PortfolioManager.load_portfolio
load_portfolio(state, name) ==
    IF portfolio_key \in DOMAIN state
    THEN Get(state[portfolio_key], name, NoPortfolio)
    ELSE NoPortfolio

\* PortfolioManager.get_all_portfolios
get_all_portfolios(state) ==
    IF portfolio_key \in DOMAIN state THEN state[portfolio_key] ELSE << >>

\* PortfolioManager.delete_portfolio
delete_portfolio(state, name) ==
    IF portfolio_key \in DOMAIN state /\ name \in DOMAIN state[portfolio_key]
    THEN Outcome(Put(state, portfolio_key, Del(state[portfolio_key], {name})), TRUE)
    ELSE Outcome(state, FALSE)

\* the names portfolios are stored under
PortfolioNames == {"Growth", "Income"}

\* the holdings that are stored: none, or one position of either size
StoredHoldings == {h \in HoldingsSet : DOMAIN h \subseteq {"AAPL"}}

\* an operation of the store has run at the time clock
Stored(op, name, portfolio, outcome) ==
    /\ clock < MaxStored
    /\ clock' = clock + 1
    /\ session_state' = outcome.state
    /\ result' = Returned(op, outcome.value)
    /\ calls' = Append(calls, [op |-> op, symbol |-> name, holdings |-> portfolio])
    /\ UNCHANGED <<data, holdings, all_data, provider, received, cache>>

SavePortfolio ==
    \E name \in PortfolioNames, portfolio \in StoredHoldings :
        Stored("save_portfolio", name, portfolio,
               save_portfolio(session_state, name, portfolio, clock))

LoadPortfolio ==
    \E name \in PortfolioNames :
        Stored("load_portfolio", name, << >>,
               Outcome(session_state, load_portfolio(session_state, name)))

GetAllPortfolios ==
    Stored("get_all_portfolios", "", << >>,
           Outcome(session_state, get_all_portfolios(session_state)))

DeletePortfolio ==
    \E name \in PortfolioNames :
        Stored("delete_portfolio", name, << >>, delete_portfolio(session_state, name))

NextStore ==
    \/ SavePortfolio
    \/ LoadPortfolio
    \/ GetAllPortfolios
    \/ DeletePortfolio

SpecStore == InitSession /\ [][NextStore]_vars

-----------------------------------------------------------------------------
(* Sessions that read the cache at the same time.  Every session runs its   *)
(* script in a thread of its own; an export reads a series through the      *)
(* cached fetcher, writes its columns to the object it was handed and       *)
(* serialises it, and the steps of two exports interleave.  st.cache_data   *)
(* keeps the pickled return value of the function: a hit unpickles it into  *)
(* an object of the caller's own, and a miss hands the caller the object    *)
(* the function returned, of which the cache holds the pickled copy.        *)

\* the sessions that export at the same time
Readers == {1, 2}

\* the reader is not inside an export
Idle == [at |-> "idle"]

\* a hit that hands out an object another reader of the entry already holds
HandOut_shared(reader, holders) ==
    IF holders = {} THEN reader ELSE CHOOSE holder \in holders : TRUE

\* the object a hit hands to the reader: pickle.loads makes one of its own,
\* whoever else holds the value of the entry
HandOut(reader, holders) == reader

\* the object the reader works on
View(objects, reader) == objects[objects[reader].object].now

\* the calls of the cached fetchers the exports make
SharedRequests == {<<"get_crypto_data", "BTC", "1y">>, <<"get_stock_data", "AAPL", "1y">>}

\* what the body of the cached fetcher returns
Body(fn, prov, symbol, period) ==
    IF fn = "get_crypto_data" THEN get_crypto_data(prov, symbol, period)
    ELSE get_stock_data(prov, symbol, period)

\* data = fetcher.get_...(symbol, period) in an export of the reader
Read(reader) ==
    /\ received[reader].at = "idle"
    /\ \E request \in SharedRequests :
          LET fn == request[1]
              symbol == request[2]
              period == request[3]
              key == CacheKey(fn, symbol, period)
              hit == Fresh(cache, key, PriceTtl, clock)
              value == IF hit THEN cache[key].value ELSE Body(fn, provider, symbol, period)
              stored_at == IF hit THEN cache[key].stored_at ELSE clock
              holders == {other \in Readers \ {reader} :
                             /\ received[other].at # "idle"
                             /\ received[other].op = fn
                             /\ received[other].symbol = symbol
                             /\ received[other].period = period
                             /\ received[other].stored_at = stored_at}
              object == IF hit THEN HandOut(reader, holders) ELSE reader
          IN  /\ received' =
                     [received EXCEPT ![reader] =
                         [at |-> "holding", op |-> fn, symbol |-> symbol, period |-> period,
                          stored_at |-> stored_at, object |-> object, handed |-> value,
                          now |-> value]]
              /\ cache' = IF hit THEN cache ELSE Store(cache, key, PriceTtl, value, clock)
              /\ calls' = IF hit THEN << >>
                          ELSE <<[symbol |-> (IF fn = "get_crypto_data"
                                              THEN NormalizeCrypto(symbol) ELSE symbol),
                                  period |-> period]>>
    /\ UNCHANGED <<data, holdings, all_data, result, provider, clock, session_state>>

\* the export writes its columns to the object it holds
AddColumns(reader) ==
    /\ received[reader].at = "holding"
    /\ LET slot == received[reader].object
           frame == View(received, reader)
           written == IF received[reader].op = "get_crypto_data"
                      THEN WithCryptoColumns(frame)
                      ELSE Tagged(frame, received[reader].symbol)
       IN  /\ ~(frame.isNone \/ Empty(frame))
           /\ received' =
                  [r \in DOMAIN received |->
                      LET was == received[r]
                          kept == IF r = slot THEN [was EXCEPT !.now = written] ELSE was
                      IN  IF r = reader THEN [kept EXCEPT !.at = "written"] ELSE kept]
    /\ UNCHANGED <<data, holdings, all_data, result, provider, cache, clock, calls,
                   session_state>>

\* the export serialises what it holds and returns
ReturnCsv(reader) ==
    /\ received[reader].at \in {"holding", "written"}
    /\ LET frame == View(received, reader)
           none == frame.isNone \/ Empty(frame)
           crypto == received[reader].op = "get_crypto_data"
       IN  /\ received[reader].at = "holding" => none
           /\ result' =
                  Returned(IF crypto THEN "export_crypto_data"
                           ELSE "export_multiple_stocks_comparison",
                           IF none THEN EmptyString
                           ELSE IF crypto THEN to_csv(frame, 8)
                           ELSE to_csv(SortValues(ConcatAll(<<frame>>)), 6))
           /\ received' = [received EXCEPT ![reader] = Idle]
    /\ UNCHANGED <<data, holdings, all_data, provider, cache, clock, calls, session_state>>

\* the markets the readers see: the crypto symbol is served or fails
SharedMarkets == {Market({}), Market({"BTC-USD"})}

\* the provider's answers change while entries of the cache are in use
ProviderChanges ==
    /\ \E market \in SharedMarkets : market # provider /\ provider' = market
    /\ UNCHANGED <<data, holdings, all_data, result, received, cache, clock, calls,
                   session_state>>

InitShared ==
    /\ data = NoneData
    /\ holdings = EmptyMapping
    /\ all_data = EmptyMapping
    /\ result = NoResult
    /\ provider \in SharedMarkets
    /\ received = [reader \in Readers |-> Idle]
    /\ cache = << >>
    /\ clock = 0
    /\ calls = << >>
    /\ session_state = << >>

NextShared ==
    \/ \E reader \in Readers : Read(reader)
    \/ \E reader \in Readers : AddColumns(reader)
    \/ \E reader \in Readers : ReturnCsv(reader)
    \/ ProviderChanges
    \/ Tick

SpecShared == InitShared /\ [][NextShared]_vars

-----------------------------------------------------------------------------
(* Properties *)

Closes == [i \in 1..Len(data.rows) |-> data.rows[i].Close]

NBars == Len(data.rows)

CalledMetrics == result.op = "calculate_metrics"

CalledIndicators == result.op = "calculate_technical_indicators"

CalledPerformance == result.op = "calculate_portfolio_performance"

\* C1: for every series of at least 2 bars calculate_metrics returns
\* 'Price Change' = close[-1] - close[-2] and 'Percent Change' =
\* (close[-1] - close[-2]) / close[-2] * 100, sign included.
C1_PriceAndPercentChange ==
    (CalledMetrics /\ ~data.isNone /\ NBars >= 2) =>
        /\ result.outcome = "returned"
        /\ {"Price Change", "Percent Change"} \subseteq DOMAIN result.value
        /\ LET change == Closes[NBars] - Closes[NBars - 1]
               pc == result.value["Percent Change"]
           IN  /\ result.value["Price Change"] = Int2Num(change)
               /\ IsFin(pc)
               /\ pc.n * Closes[NBars - 1] = 100 * change * pc.d

\* C1 witness: closes 102 then 101 give a change of -1.0 and about -0.98 percent
C1_Witness ==
    /\ CalledMetrics /\ ~data.isNone /\ NBars >= 3
    /\ Closes[NBars - 1] = 102 /\ Closes[NBars] = 101 /\ Closes[1] = 104
    /\ result.value["Price Change"] = Int2Num(-1)
    /\ Lt(Fin(-99, 100), result.value["Percent Change"])
    /\ Lt(result.value["Percent Change"], Fin(-98, 100))

\* C2: no call into the computation layer raises to its caller: for a
\* non-empty series, an empty series or None, every operation ends by
\* returning a value.
C2_NeverRaises == result.outcome # "raised"

\* C3: for every non-empty close series with fewer bars than the RSI window
\* (14) the RSI indicator is exactly 50.0.
C3_RsiShortSeriesNeutral ==
    (CalledIndicators /\ NBars >= 1 /\ NBars < RsiPeriod) =>
        /\ result.outcome = "returned"
        /\ result.value.rsi = Int2Num(50)

\* C3 witness: 13 bars with one rising and several falling closes, and the
\* RSI is 50.0
C3_Witness ==
    /\ CalledIndicators /\ NBars = RsiPeriod - 1
    /\ Cardinality({i \in 2..NBars : Closes[i] < Closes[i - 1]}) >= 2
    /\ Cardinality({i \in 2..NBars : Closes[i] > Closes[i - 1]}) = 1
    /\ result.value.rsi = Int2Num(50)

\* C4: for every non-empty close series with fewer than 20 bars the Bollinger
\* Bands returned by calculate_technical_indicators are exactly (0.0, 0.0).
C4_BollingerShortSeriesZero ==
    (CalledIndicators /\ NBars >= 1 /\ NBars < BollingerPeriod) =>
        /\ result.outcome = "returned"
        /\ result.value.bb_upper = Zero
        /\ result.value.bb_lower = Zero

RsiWindow == {i \in (NBars - RsiPeriod + 1)..NBars : i >= 2}

NoFallInWindow == \A i \in RsiWindow : Closes[i] >= Closes[i - 1]

NoRiseInWindow == \A i \in RsiWindow : Closes[i] <= Closes[i - 1]

C7_RsiInRange ==
    (CalledIndicators /\ NBars >= 1) =>
        /\ result.outcome = "returned"
        /\ Le(Zero, result.value.rsi)
        /\ Le(result.value.rsi, Int2Num(100))

\* C7 witness: a full window with both gains and losses, and an RSI strictly
\* between 50 and 100
C7_Witness ==
    /\ CalledIndicators /\ NBars >= RsiPeriod
    /\ ~NoFallInWindow /\ ~NoRiseInWindow
    /\ Lt(Int2Num(50), result.value.rsi)
    /\ Lt(result.value.rsi, Int2Num(100))

\* C8: for an empty series calculate_metrics, calculate_technical_indicators
\* and calculate_price_statistics each return an empty mapping, whatever the
\* issuer metadata.
C8_EmptySeriesEmptyMapping ==
    (result.op # "none" /\ ~data.isNone /\ NBars = 0) =>
        /\ result.outcome = "returned"
        /\ DOMAIN result.value = {}

\* C8 witness: calculate_metrics has answered an empty series
C8_Witness ==
    /\ CalledMetrics /\ ~data.isNone /\ NBars = 0
    /\ result.outcome = "returned"
    /\ DOMAIN result.value = {}

\* the value of the portfolio at bar i: the sum of shares * close over the
\* holdings that have a series
ValueAt(i) ==
    LET held == {s \in DOMAIN holdings : In(s, all_data)}
    IN  SumOver(held, [s \in held |->
            Int2Num(holdings[s].shares * At(all_data, s).rows[i].Close)])

ValueBars == MinOf({Len(all_data[i].df.rows) : i \in 1..Len(all_data)})

NonDecreasingValues ==
    \A i \in 2..ValueBars : ~Lt(ValueAt(i), ValueAt(i - 1))

HasMetrics == CalledPerformance /\ result.outcome = "returned" /\ DOMAIN result.value # {}

\* C9: the maximum drawdown is a fraction in [0, 1] (a percentage in
\* [0, 100] in the result), and it is exactly 0 when the reconstructed
\* portfolio value series is monotonically non-decreasing.
C9_MaxDrawdownRange ==
    HasMetrics =>
        /\ Le(Zero, result.value.max_drawdown)
        /\ Le(result.value.max_drawdown, Int2Num(100))
        /\ (Len(all_data) > 0 /\ NonDecreasingValues) => result.value.max_drawdown = Zero

\* C10: the Sharpe ratio is 0 whenever the computed portfolio volatility is
\* 0, whatever the weighted return is; it is never infinity or NaN.
C10_SharpeZeroVolatility ==
    HasMetrics =>
        /\ IsFin(result.value.sharpe_ratio)
        /\ result.value.portfolio_volatility = Zero => result.value.sharpe_ratio = Zero

\* C10 witness: a weighted return of 10 percent, volatility 0, Sharpe ratio 0
C10_Witness ==
    /\ HasMetrics
    /\ result.value.weighted_return_pct = Int2Num(10)
    /\ result.value.portfolio_volatility = Zero
    /\ result.value.sharpe_ratio = Zero

RECURSIVE IntSum(_, _)
IntSum(S, f) ==
    IF S = {} THEN 0
    ELSE LET x == CHOOSE y \in S : TRUE IN f[x] + IntSum(S \ {x}, f)

\* the holdings whose symbol has a price series
HeldSymbols == {s \in DOMAIN holdings : In(s, all_data)}

LastClose(s) == At(all_data, s).rows[Len(At(all_data, s).rows)].Close

InvestedIn(S) == IntSum(S, [s \in S |-> holdings[s].shares * holdings[s].purchase_price])

ValueOf(S) == IntSum(S, [s \in S |-> holdings[s].shares * LastClose(s)])

\* C11: over the holdings whose symbol has a price series,
\* calculate_portfolio_performance returns total_investment = sum of shares *
\* purchase_price, current_value = sum of shares * last close, total_return =
\* current_value - total_investment and total_return_pct = total_return /
\* total_investment * 100; the backend route computes the same four totals.
C11_PortfolioTotals ==
    /\ (CalledPerformance /\ \A s \in HeldSymbols : ~Empty(At(all_data, s))) =>
          /\ HasMetrics
          /\ LET ti == InvestedIn(HeldSymbols)
                 cv == ValueOf(HeldSymbols)
                 pct == result.value.total_return_pct
             IN  /\ result.value.total_investment = Int2Num(ti)
                 /\ result.value.current_value = Int2Num(cv)
                 /\ result.value.total_return = Int2Num(cv - ti)
                 /\ IsFin(pct)
                 /\ ti > 0 => pct.n * ti = 100 * (cv - ti) * pct.d
    /\ result.op = "calculate_portfolio" =>
          LET priced == {s \in HeldSymbols : ~Empty(At(all_data, s))}
              ti == InvestedIn(priced)
              cv == ValueOf(priced)
              pct == result.value.return_pct
          IN  /\ result.outcome = "returned"
              /\ result.value.total_investment = Int2Num(ti)
              /\ result.value.current_value = Int2Num(cv)
              /\ result.value.total_return = Int2Num(cv - ti)
              /\ IsFin(pct)
              /\ ti > 0 => pct.n * ti = 100 * (cv - ti) * pct.d

\* C11 witness: 10 shares bought at 150 with a last close of 165 give
\* 1500, 1650, 150 and 10.0 percent
C11_Witness ==
    /\ HasMetrics
    /\ DOMAIN holdings = {"AAPL"}
    /\ holdings["AAPL"] = [shares |-> 10, purchase_price |-> 150]
    /\ In("AAPL", all_data) /\ LastClose("AAPL") = 165
    /\ result.value.total_investment = Int2Num(1500)
    /\ result.value.current_value = Int2Num(1650)
    /\ result.value.total_return = Int2Num(150)
    /\ result.value.total_return_pct = Int2Num(10)

\* C19: the weights used by calculate_portfolio_performance (a holding's
\* share of the total investment) sum to 1 over the holdings present in both
\* maps, also when some holding has no price series.
C19_WeightsSumToOne ==
    (HasMetrics /\ HeldSymbols # {}) =>
        SumOver(HeldSymbols, [s \in HeldSymbols |-> Weight(holdings, s)]) = Int2Num(1)

\* no holdings, no price series, a zero-length series, or holdings of which
\* none has a price series
DegenerateInput ==
    \/ DOMAIN holdings = {}
    \/ Len(all_data) = 0
    \/ \E i \in 1..Len(all_data) : Empty(all_data[i].df)
    \/ HeldSymbols = {}

\* C20: the maximum drawdown is exactly 0.0 for every empty or degenerate
\* input (no holdings, no price series, a zero-length series, holdings of
\* which none has a price series), and it is never NaN.
C20_DrawdownDegenerateZero ==
    HasMetrics =>
        /\ ~IsNaN(result.value.max_drawdown)
        /\ DegenerateInput => result.value.max_drawdown = Zero

CalledEquityExport == result.op = "export_stock_historical_data"

CalledComparisonExport == result.op = "export_multiple_stocks_comparison"

CalledCryptoExport == result.op = "export_crypto_data"

CalledExport == CalledEquityExport \/ CalledComparisonExport \/ CalledCryptoExport

\* the bars the provider has for the i-th request of the operation
BarsOf(i) == Answer(provider, calls[i].symbol, calls[i].period).rows

\* the i-th request yields a series: the provider did not fail and has bars
HasSeries(i) ==
    /\ ~Answer(provider, calls[i].symbol, calls[i].period).raises
    /\ Len(BarsOf(i)) > 0

\* the position of a column in the header of the exported text
ColumnAt(col) == CHOOSE j \in 1..Len(result.value.header) : result.value.header[j] = col

\* the cell of data row i under the column col
Cell(i, col) == result.value.lines[i][ColumnAt(col)]

\* C12: for every non-empty input series of N bars the equity export has
\* exactly N + 1 data rows under the header: the metadata banner, whose Date
\* cell is METADATA, followed by the N bars in their input order.
C12_EquityExportRows ==
    (CalledEquityExport /\ HasSeries(1)) =>
        LET N == Len(BarsOf(1)) IN
        /\ result.outcome = "returned"
        /\ Len(result.value.lines) = N + 1
        /\ Cell(1, "Date") = Text("METADATA")
        /\ \A i \in 1..N :
              /\ Cell(i + 1, "Date") = BarsOf(1)[i]["Date"]
              /\ \A c \in {"Open", "High", "Low", "Close", "Volume"} :
                     Cell(i + 1, c).x = BarsOf(1)[i][c]

\* C12 witness: two different bars, exported as the banner and the two bars
C12_Witness ==
    /\ CalledEquityExport /\ HasSeries(1) /\ Len(BarsOf(1)) = 2
    /\ BarsOf(1)[1]["Close"] # BarsOf(1)[2]["Close"]
    /\ Len(result.value.lines) = 3
    /\ Cell(1, "Date") = Text("METADATA")
    /\ Cell(2, "Close").x = Int2Num(102)
    /\ Cell(3, "Close").x = Int2Num(101)

\* C13: for every non-empty input series the header of the equity export
\* lists the 19 columns in exactly the documented order, whatever the order
\* in which the provider delivered the base columns.
C13_EquityExportHeader ==
    (CalledEquityExport /\ HasSeries(1)) =>
        result.value.header =
            <<"Date", "Open", "High", "Low", "Close", "Volume", "Dividends",
              "Stock Splits", "Daily_Change", "Daily_Change_Pct", "Price_Range",
              "Price_Range_Pct", "MA_7", "MA_20", "MA_50", "Volatility_7d",
              "Volatility_20d", "Volume_MA_20", "Volume_Ratio">>

\* C13 witness: the provider delivered Close before Open, and the header
\* has Open in second and Close in fifth place
C13_Witness ==
    /\ CalledEquityExport /\ HasSeries(1)
    /\ Answer(provider, calls[1].symbol, calls[1].period).columns[2] = "Close"
    /\ Len(result.value.header) = 19
    /\ result.value.header[2] = "Open" /\ result.value.header[5] = "Close"
    /\ result.value.header[19] = "Volume_Ratio"

DayOf(k) == Cell(k, "Date").day

SymbolOf(k) == Cell(k, "Symbol").s

\* the requests of the operation that asked for the symbol s
RequestsFor(s) == {i \in 1..Len(calls) : calls[i].symbol = s}

\* C15: the multi-symbol comparison export contains every bar of every
\* requested symbol that has data, each row tagged with its own symbol, and
\* the rows are ordered by (date, symbol); symbols with no data contribute
\* no rows.
C15_ComparisonRows ==
    (CalledComparisonExport /\ \E i \in 1..Len(calls) : HasSeries(i)) =>
        LET lines == result.value.lines
            with_data == {i \in 1..Len(calls) : HasSeries(i)}
        IN  /\ Len(lines) = IntSum(with_data, [i \in with_data |-> Len(BarsOf(i))])
            /\ \A i \in with_data : \A j \in 1..Len(BarsOf(i)) :
                   Cardinality({k \in 1..Len(lines) :
                       /\ SymbolOf(k) = calls[i].symbol
                       /\ Cell(k, "Date") = BarsOf(i)[j]["Date"]
                       /\ Cell(k, "Close").whole = BarsOf(i)[j]["Close"].n
                       /\ Cell(k, "Close").frac = 0
                       /\ Cell(k, "Volume").n = BarsOf(i)[j]["Volume"].n})
                   = Cardinality(RequestsFor(calls[i].symbol))
            /\ \A k \in 1..Len(lines) : \E i \in with_data : SymbolOf(k) = calls[i].symbol
            /\ \A k \in 1..(Len(lines) - 1) :
                   \/ DayOf(k) < DayOf(k + 1)
                   \/ DayOf(k) = DayOf(k + 1) /\ Rank(SymbolOf(k)) <= Rank(SymbolOf(k + 1))

\* C15 witness: MSFT asked before AAPL, two bars each: four rows, AAPL
\* before MSFT on each of the two days
C15_Witness ==
    /\ CalledComparisonExport /\ Len(calls) = 2
    /\ calls[1].symbol = "MSFT" /\ calls[2].symbol = "AAPL"
    /\ Len(BarsOf(1)) = 2 /\ Len(BarsOf(2)) = 2
    /\ Len(result.value.lines) = 4
    /\ <<SymbolOf(1), SymbolOf(2), SymbolOf(3), SymbolOf(4)>> = <<"AAPL", "MSFT", "AAPL", "MSFT">>
    /\ DayOf(1) = DayOf(2) /\ DayOf(2) < DayOf(3) /\ DayOf(3) = DayOf(4)

\* C18: every DataExporter operation (equity, multi-symbol comparison,
\* crypto) leaves the series object it received from the repository
\* unchanged and adds its derived columns only to a derived copy.
C18_ReceivedSeriesUnchanged ==
    CalledExport => \A i \in 1..Len(received) : received[i].now = received[i].handed

CryptoOps == {"get_crypto_data", "get_crypto_info", "DataService.get_crypto_data"}

\* C16: crypto symbol normalisation appends '-USD' to a symbol exactly when
\* the symbol does not already end with '-USD'; it is idempotent, so a bare
\* symbol and its suffixed form are fetched under the same provider symbol.
C16_CryptoNormalization ==
    (result.op \in CryptoOps /\ Len(calls) = 1) =>
        LET asked == received[1].symbol
            sent == calls[1].symbol
        IN  /\ asked \in {"BTC-USD", "-USD"} => sent = asked
            /\ asked \notin {"BTC-USD", "-USD"} => sent = asked \o "-USD"
            /\ asked \in {"BTC", "BTC-USD"} => sent = "BTC-USD"
            /\ NormalizeCrypto(sent) = sent
            /\ NormalizeCrypto(NormalizeCrypto(asked)) = NormalizeCrypto(asked)

\* C16 witness: the price series was fetched for BTC-USD and then for BTC,
\* both times under the provider symbol BTC-USD, with the same result
C16_Witness ==
    /\ result.op = "get_crypto_data" /\ Len(calls) = 1
    /\ received[1].symbol = "BTC" /\ calls[1].symbol = "BTC-USD"
    /\ CacheKey("get_crypto_data", "BTC-USD", DefaultPeriod) \in DOMAIN cache
    /\ ~cache[CacheKey("get_crypto_data", "BTC-USD", DefaultPeriod)].value.isNone
    /\ result.value = cache[CacheKey("get_crypto_data", "BTC-USD", DefaultPeriod)].value

\* a step in which a fetcher was called: time stands still and something
\* of what the call leaves behind has changed
FetchStep ==
    /\ clock' = clock
    /\ <<result, received, cache, calls>>' # <<result, received, cache, calls>>

ReversedData == [i \in 1..Len(all_data) |-> all_data[Len(all_data) + 1 - i]]

\* the length of the shortest series among the holdings that have one
ShortestHeld == MinOf({Len(At(all_data, s).rows) : s \in HeldSymbols})

\* C21: the portfolio volatility is computed from exactly
\* min(30, shortest_series_length - 1) daily portfolio returns, the shortest
\* series being taken among the holdings, and it does not depend on the
\* order of the series in the map.
C21_VolatilityReturnCount ==
    (HasMetrics /\ HeldSymbols # {}) =>
        /\ Len(PortfolioReturns(holdings, all_data))
               = (IF ShortestHeld - 1 < 30 THEN ShortestHeld - 1 ELSE 30)
        /\ _calculate_portfolio_volatility(holdings, ReversedData)
               = _calculate_portfolio_volatility(holdings, all_data)

\* C22: for a series with exactly one bar calculate_metrics uses the single
\* close as the previous close and returns 'Price Change' = 0 and
\* 'Percent Change' = 0.
C22_SingleBarNoChange ==
    (CalledMetrics /\ ~data.isNone /\ NBars = 1) =>
        /\ result.outcome = "returned"
        /\ {"Price Change", "Percent Change"} \subseteq DOMAIN result.value
        /\ result.value["Price Change"] = Zero
        /\ result.value["Percent Change"] = Zero

\* C22 witness: one bar with a close of 102, reported as the current price
\* with no change
C22_Witness ==
    /\ CalledMetrics /\ ~data.isNone /\ NBars = 1 /\ Closes[1] = 102
    /\ result.value["Current Price"] = Int2Num(102)
    /\ result.value["Price Change"] = Zero
    /\ result.value["Percent Change"] = Zero

\* the arithmetic mean of the last n closes of the series
MeanOfLastCloses(n) ==
    Div(Int2Num(IntSum((NBars - n + 1)..NBars, Closes)), Int2Num(n))

\* C23: sma_20 and sma_50 returned by calculate_technical_indicators equal the
\* arithmetic mean of the last 20 (resp. 50) closes when the series has at
\* least that many bars, and are 0 when it has fewer; an average over a
\* partial window is never reported.
C23_MovingAverages ==
    (CalledIndicators /\ ~data.isNone /\ NBars >= 1) =>
        /\ result.outcome = "returned"
        /\ result.value.sma_20 = (IF NBars >= 20 THEN MeanOfLastCloses(20) ELSE Zero)
        /\ result.value.sma_50 = (IF NBars >= 50 THEN MeanOfLastCloses(50) ELSE Zero)

\* C23 witness: 21 bars whose last 20 closes have another mean than all 21:
\* sma_20 is the mean of the last 20 and sma_50 is 0
C23_Witness ==
    /\ CalledIndicators /\ ~data.isNone /\ NBars = 21
    /\ MeanOfLastCloses(20) # MeanOfLastCloses(21)
    /\ result.value.sma_20 = MeanOfLastCloses(20)
    /\ result.value.sma_50 = Zero


\* the column col of the series the crypto export has written its columns to
Written(col) == Series(received[1].now, col)

\* cumprod(1 + Daily_Return) - 1 over the rows up to i of the Daily_Return
\* column of the export
CumulativeOfDailyReturn(i) ==
    LET daily == Written("Daily_Return")
        growth == [j \in 1..Len(daily) |-> Add(Int2Num(1), daily[j])]
    IN  IF IsNaN(growth[i]) THEN NaN ELSE Sub(CumProd(growth, i), Int2Num(1))

\* C24: in the crypto export the Cumulative_Return of each row equals
\* cumprod(1 + Daily_Return) - 1 taken over the export's own Daily_Return
\* column up to that row.
C24_CumulativeFromDailyReturn ==
    (CalledCryptoExport /\ HasSeries(1)) =>
        \A i \in 1..Len(BarsOf(1)) :
            Written("Cumulative_Return")[i] = CumulativeOfDailyReturn(i)


\* the search history of the session
SearchHistory == get_search_history(session_state)

\* the position in the log of the last handler that emptied the history
LastCleared ==
    LET cleared == {i \in 1..Len(calls) :
                       calls[i].op \in {"clear_search_history", "reset_all_settings"}}
    IN  IF cleared = {} THEN 0 ELSE CHOOSE i \in cleared : \A j \in cleared : j <= i

\* the symbols recorded since then, oldest first
Recorded == [i \in 1..(Len(calls) - LastCleared) |-> Upper(calls[LastCleared + i].symbol)]

\* the distinct symbols of the first i records, the most recent first
RECURSIVE RecentDistinct(_)
RecentDistinct(i) ==
    IF i = 0 THEN << >>
    ELSE LET earlier == RecentDistinct(i - 1)
         IN  <<Recorded[i]>> \o SelectSeq(earlier, LAMBDA s : s # Recorded[i])

\* C25: after any sequence of record-search and clear operations the search
\* history holds at most 10 symbols, and they are the 10 most recently
\* recorded distinct symbols.
C25_HistoryIsLastTenDistinct ==
    LET distinct == RecentDistinct(Len(Recorded))
    IN  /\ Len(SearchHistory) <= 10
        /\ SearchHistory = (IF Len(distinct) > 10 THEN SubSeq(distinct, 1, 10) ELSE distinct)

\* C25 witness: an eleventh distinct symbol has been recorded after ten others
\* and the history holds ten symbols, the new one first
C25_Witness ==
    /\ result.op = "add_to_search_history"
    /\ Len(RecentDistinct(Len(Recorded))) = 12
    /\ Len(SearchHistory) = 10
    /\ SearchHistory[1] = "TSLA"


\* a step that records a symbol in the search history
AddStep ==
    /\ Len(calls') = Len(calls) + 1
    /\ calls'[Len(calls')].op \in {"add_to_search_history", "add_to_history"}

\* the history without the symbol
Without(history, symbol) == SelectSeq(history, LAMBDA s : s # symbol)

\* C28: after every add_to_search_history call the history contains no
\* duplicate symbol, every entry is upper-case and the symbol just added is at
\* position 0; re-adding a symbol already in the history moves it to the
\* front, leaves the length unchanged and keeps the relative order of the
\* other entries.
C28_MoveToFront ==
    [][AddStep =>
        LET before == get_search_history(session_state)
            after == get_search_history(session_state')
            symbol == Upper(calls'[Len(calls')].symbol)
        IN  /\ \A i, j \in 1..Len(after) : after[i] = after[j] => i = j
            /\ \A i \in 1..Len(after) : Upper(after[i]) = after[i]
            /\ Len(after) >= 1 /\ after[1] = symbol
            /\ Listed(symbol, before) =>
                  /\ Len(after) = Len(before)
                  /\ Without(after, symbol) = Without(before, symbol)]_vars

\* C28 witness: NVDA, recorded earlier and now in the middle of a full history,
\* has been searched for again: it is first, once, and the length is still 10
C28_Witness ==
    /\ result.op = "add_to_search_history"
    /\ calls[Len(calls)].symbol = "NVDA"
    /\ Len(SearchHistory) = 10
    /\ SearchHistory[1] = "NVDA"
    /\ SearchHistory[2] = "AMD"
    /\ \A i \in 2..10 : SearchHistory[i] # "NVDA"


\* a step that saves preferences
SaveStep ==
    /\ Len(calls') = Len(calls) + 1
    /\ calls'[Len(calls')].op = "save_user_preferences"

\* no preferences have been saved since the session began or was last reset
NothingSaved(log) ==
    \A i \in 1..Len(log) :
        log[i].op = "save_user_preferences" =>
            \E j \in (i + 1)..Len(log) : log[j].op = "reset_all_settings"

\* C30: save_user_preferences merges into the stored preferences: after
\* save_user_preferences(p), get_user_preferences() maps every key of p to its
\* value in p and keeps the value of every previously saved key that p does
\* not mention; the built-in defaults are returned only while nothing has been
\* saved.
C30_PreferencesMerge ==
    [][/\ SaveStep =>
            LET p == calls'[Len(calls')].symbol
                saved == Get(session_state, "user_preferences", EmptyMapping)
                after == get_user_preferences(session_state')
            IN  /\ DOMAIN after = DOMAIN saved \cup DOMAIN p
                /\ \A k \in DOMAIN p : after[k] = p[k]
                /\ \A k \in DOMAIN saved \ DOMAIN p : after[k] = saved[k]
       /\ IF NothingSaved(calls')
          THEN get_user_preferences(session_state') = DefaultPreferences
          ELSE /\ "user_preferences" \in DOMAIN session_state'
               /\ get_user_preferences(session_state') = session_state'["user_preferences"]
      ]_vars

\* C30 witness: a theme was saved, then the settings form: the preferences
\* hold the theme and the three values of the form, and no default
C30_Witness ==
    /\ Len(calls) = 2
    /\ calls[1].op = "save_user_preferences" /\ calls[2].op = "save_user_preferences"
    /\ DOMAIN calls[1].symbol = {"theme"}
    /\ get_user_preferences(session_state) =
           [theme |-> "dark", default_period |-> "1mo", auto_refresh |-> TRUE,
            show_technical_indicators |-> FALSE]


\* the operation of the portfolio store that the step has run
StoreStep(op) ==
    /\ Len(calls') = Len(calls) + 1
    /\ calls'[Len(calls')].op = op

\* every stored portfolio but the one called name is as it was
OthersUnchanged(name) ==
    \A other \in PortfolioNames \ {name} :
        load_portfolio(session_state', other) = load_portfolio(session_state, other)

\* C29: in the portfolio store load_portfolio(name) after
\* save_portfolio(name, h) returns an entry whose holdings are h;
\* delete_portfolio(name) returns True exactly when name was stored and
\* afterwards load_portfolio(name) returns None; save and delete of one name
\* leave every other stored portfolio unchanged.
C29_PortfolioStore ==
    [][LET name == calls'[Len(calls')].symbol IN
       /\ StoreStep("save_portfolio") =>
             /\ load_portfolio(session_state', name) # NoPortfolio
             /\ load_portfolio(session_state', name).holdings = calls'[Len(calls')].holdings
             /\ OthersUnchanged(name)
       /\ StoreStep("delete_portfolio") =>
             /\ result'.value = (load_portfolio(session_state, name) # NoPortfolio)
             /\ load_portfolio(session_state', name) = NoPortfolio
             /\ OthersUnchanged(name)
       /\ StoreStep("load_portfolio") =>
             result'.value = load_portfolio(session_state, name)
      ]_vars

\* C29 witness: two portfolios were saved and Growth was deleted with the
\* answer True: Growth is gone and Income still holds its 20 shares
C29_Witness ==
    /\ result.op = "delete_portfolio" /\ result.value = TRUE
    /\ calls[Len(calls)].symbol = "Growth"
    /\ load_portfolio(session_state, "Growth") = NoPortfolio
    /\ load_portfolio(session_state, "Income") # NoPortfolio
    /\ load_portfolio(session_state, "Income").holdings =
           ("AAPL" :> [shares |-> 20, purchase_price |-> 150])


\* the last call was a call of a price fetcher that answered None
AnsweredNone ==
    /\ result.op \in {"get_stock_data", "get_crypto_data"}
    /\ result.outcome = "returned"
    /\ result.value.isNone

\* the step calls the fetcher of the last call again, with the same symbol and
\* period
SameCallAgain ==
    /\ FetchStep
    /\ received'[1].op = received[1].op
    /\ received'[1].symbol = received[1].symbol
    /\ received'[1].period = received[1].period

\* C27: an unavailable outcome is memoized like a success: when
\* get_stock_data or get_crypto_data has returned None for a (symbol, period),
\* because the provider had no rows or failed, a further call with the same
\* symbol and period less than 300 seconds after the provider was asked
\* returns None and does not contact the provider again.
C27_NoneIsMemoized ==
    [][(AnsweredNone /\ SameCallAgain /\ clock - received[1].stored_at < 300) =>
          /\ result'.value.isNone
          /\ calls' = << >>
          /\ received'[1].stored_at = received[1].stored_at
      ]_vars

\* C27 witness: the provider has no rows for MSFT over one month; None, fetched
\* at 0, is answered again 299 seconds later without a request to the provider
C27_Witness ==
    /\ AnsweredNone /\ clock = 299
    /\ received[1].symbol = "MSFT" /\ received[1].period = "1mo"
    /\ received[1].stored_at = 0 /\ calls = << >>
    /\ ~Answer(provider, "MSFT", "1mo").raises


\* the reader is inside an export
Reading(objects, reader) == objects[reader].at # "idle"

\* the two readers hold the value of the same entry of the cache
SameEntry(objects, r, q) ==
    /\ Reading(objects, r) /\ Reading(objects, q)
    /\ objects[r].op = objects[q].op
    /\ objects[r].symbol = objects[q].symbol
    /\ objects[r].period = objects[q].period
    /\ objects[r].stored_at = objects[q].stored_at

\* C26: concurrent requests reading the cache for the same key within its TTL
\* all obtain the same, possibly stale, value, and nothing one request does
\* with the value it received, including adding columns to it, changes what
\* another request or a later cache hit receives.
C26_ReadersAreIsolated ==
    [][\A r \in Readers :
        LET key == CacheKey(received'[r].op, received'[r].symbol, received'[r].period)
            reads == ~Reading(received, r) /\ Reading(received', r)
            writes == Reading(received, r) /\ received[r].at = "holding"
                      /\ received'[r].at = "written"
        IN  /\ reads =>
                  /\ View(received', r) = received'[r].handed
                  /\ Fresh(cache, key, PriceTtl, clock) =>
                        /\ received'[r].handed = cache[key].value
                        /\ calls' = << >>
                  /\ \A q \in Readers \ {r} :
                        SameEntry(received', r, q) =>
                            received'[r].handed = received'[q].handed
            /\ writes =>
                  /\ cache' = cache
                  /\ \A q \in Readers \ {r} :
                        Reading(received, q) =>
                            /\ Reading(received', q)
                            /\ View(received', q) = View(received, q)
            /\ \A k \in DOMAIN cache \cap DOMAIN cache' :
                  cache'[k].stored_at = cache[k].stored_at => cache'[k].value = cache[k].value
      ]_vars

\* C26 witness: both readers hold the BTC series fetched at 0, the second one
\* read it 299 seconds later, after the first had added its columns and after
\* the provider began to fail: the second holds the series as it was fetched
C26_Witness ==
    /\ clock = 299
    /\ SameEntry(received, 1, 2)
    /\ received[1].op = "get_crypto_data" /\ received[1].stored_at = 0
    /\ received[1].at = "written" /\ received[2].at = "holding"
    /\ View(received, 1) # received[1].handed
    /\ View(received, 2) = received[1].handed
    /\ ~received[2].handed.isNone
    /\ calls = << >>
    /\ get_crypto_data(provider, "BTC", "1y").isNone

====
